---------------------------- MODULE Spec2Model ----------------------------
(***************************************************************************)
(* A model of the line breaking checker (UAX #14): the rule parser, the    *)
(* text model built by setText, the rule matcher isPosLineBreaking with    *)
(* the LB9/LB10 view swap, and the segment iterator.                       *)
(*                                                                         *)
(* Indices are the 0-based indices of the JavaScript source; a sequence    *)
(* s of the model holds JavaScript's s[i] at s[i + 1].                     *)
(***************************************************************************)
EXTENDS Integers, Sequences, FiniteSets, TLC

(***************************************************************************)
(* Bounds of the model.                                                    *)
(***************************************************************************)
\* longest text, in UTF-16 code units, that setText is given
MaxLen == 3
\* longest rule string, in tokens, that a checker is constructed with
MaxTokens == 4

(***************************************************************************)
(* BreakType (breaktypes.mjs; the values are those of the README).         *)
(***************************************************************************)
UNKNOWN == 0
FORBIDDEN == 1
MANDATORY == 2
ALLOWED == 4

\* JavaScript's undefined, for a class, a code point, an index and a result
UndefCls == "undefined"
UndefCp == 0 - 1
UndefIdx == 0 - 1
UndefResult == 0 - 1
\* JavaScript's NaN as an index: it is no array index, it is neither < 0 nor
\* equal to a length, and arithmetic on it yields NaN again
NaNIdx == 0 - 1000

(***************************************************************************)
(* The Unicode data the checker reads: codePointsBLClasses (line breaking  *)
(* class and General_Category per code point) and eastAsianCodePoints, and *)
(* the engine's Extended_Pictographic property, for the code points of the *)
(* model. U+10FFFF has no entry in the class table.                        *)
(***************************************************************************)
codePointsBLClasses ==
     (10     :> [line_breaking_class |-> "LF",  general_category |-> "Cc"])
  @@ (12     :> [line_breaking_class |-> "BK",  general_category |-> "Cc"])
  @@ (13     :> [line_breaking_class |-> "CR",  general_category |-> "Cc"])
  @@ (32     :> [line_breaking_class |-> "SP",  general_category |-> "Zs"])
  @@ (34     :> [line_breaking_class |-> "QU",  general_category |-> "Po"])
  @@ (65     :> [line_breaking_class |-> "AL",  general_category |-> "Lu"])
  @@ (97     :> [line_breaking_class |-> "AL",  general_category |-> "Ll"])
  @@ (98     :> [line_breaking_class |-> "AL",  general_category |-> "Ll"])
  @@ (133    :> [line_breaking_class |-> "NL",  general_category |-> "Cc"])
  @@ (167    :> [line_breaking_class |-> "AI",  general_category |-> "Po"])
  @@ (169    :> [line_breaking_class |-> "AL",  general_category |-> "So"])
  @@ (769    :> [line_breaking_class |-> "CM",  general_category |-> "Mn"])
  @@ (3585   :> [line_breaking_class |-> "SA",  general_category |-> "Lo"])
  @@ (3633   :> [line_breaking_class |-> "SA",  general_category |-> "Mn"])
  @@ (4139   :> [line_breaking_class |-> "SA",  general_category |-> "Mc"])
  @@ (8203   :> [line_breaking_class |-> "ZW",  general_category |-> "Cf"])
  @@ (8205   :> [line_breaking_class |-> "ZWJ", general_category |-> "Cf"])
  @@ (12353  :> [line_breaking_class |-> "CJ",  general_category |-> "Lo"])
  @@ (19968  :> [line_breaking_class |-> "ID",  general_category |-> "Lo"])
  @@ (55356  :> [line_breaking_class |-> "SG",  general_category |-> "Cs"])
  @@ (56811  :> [line_breaking_class |-> "SG",  general_category |-> "Cs"])
  @@ (56319  :> [line_breaking_class |-> "SG",  general_category |-> "Cs"])
  @@ (57343  :> [line_breaking_class |-> "SG",  general_category |-> "Cs"])
  @@ (57344  :> [line_breaking_class |-> "XX",  general_category |-> "Co"])
  @@ (65536  :> [line_breaking_class |-> "AL",  general_category |-> "Lo"])
  @@ (127467 :> [line_breaking_class |-> "RI",  general_category |-> "So"])

eastAsianCodePoints == {12353, 19968}

ExtendedPictographic == {169}

getClass(codePoint) ==
  IF codePoint \in DOMAIN codePointsBLClasses
    THEN codePointsBLClasses[codePoint].line_breaking_class
    ELSE UndefCls

getGeneralCategory(codePoint) ==
  IF codePoint \in DOMAIN codePointsBLClasses
    THEN codePointsBLClasses[codePoint].general_category
    ELSE "undefined"

getClsAndGC(codePoint) ==
  IF codePoint \in DOMAIN codePointsBLClasses
    THEN << codePointsBLClasses[codePoint].line_breaking_class,
            codePointsBLClasses[codePoint].general_category >>
    ELSE << UndefCls, "" >>

(***************************************************************************)
(* RuleParser. A rule string is held as the token list that                *)
(* str.split(/\s+/) yields. The three regular expressions of parseToken    *)
(* are modelled by the sets of the tokens that match them whole. The        *)
(* literals of the first and the third case of parseToken are the verdict  *)
(* symbols of the rule syntax (U+00D7 and U+00F7).                         *)
(***************************************************************************)
CodePointLiterals == ("\\u25CC" :> 9676) @@ ("\\u2010" :> 8208)

GeneralCategoryLiterals ==
  ("gc(Pi)" :> "Pi") @@ ("gc(Pf)" :> "Pf") @@ ("gc(Cn)" :> "Cn")
  @@ ("gc(Mn)" :> "Mn") @@ ("gc(Mc)" :> "Mc") @@ ("gc(Lu)" :> "Lu")

ClassLiterals ==
  { "AL", "HL", "NU", "SP", "BK", "CR", "LF", "NL", "ZW", "ZWJ", "CM", "GL",
    "WJ", "CL", "CP", "EX", "SY", "OP", "QU", "IS", "NS", "BA", "BB", "HY",
    "HH", "CB", "IN", "PR", "PO", "ID", "EB", "EM", "JL", "JV", "JT", "H2",
    "H3", "RI", "AK", "AS", "AP", "VF", "VI", "AI", "SG", "XX", "SA", "CJ",
    "B2" }

\* what parseToken returns: the context to go on with, the next index, and
\* ruleObj.result; switched tells that the context returned is a new one
\* (ruleObj.after.content); err tells that it threw
ParseResult(context, i, result, switched) ==
  [context |-> context, i |-> i, result |-> result, switched |-> switched,
   err |-> FALSE]

ParseError ==
  [context |-> << >>, i |-> 0, result |-> UndefResult, switched |-> FALSE,
   err |-> TRUE]

RECURSIVE parseToken(_, _, _, _)
RECURSIVE parseBracket(_, _, _, _, _)

\* the loops  while (tokens[i] !== ')')  and  while (tokens[i] !== ']')
\* of parseToken, filling newElem.content
parseBracket(tokens, i, closer, content, result) ==
  IF i < Len(tokens) /\ tokens[i + 1] = closer
    THEN ParseResult(content, i, result, FALSE)
    ELSE LET r == parseToken(tokens, i, content, result)
         IN  IF r.err THEN ParseError
             ELSE parseBracket(tokens, r.i, closer, r.context, r.result)

parseToken(tokens, i, context, result) ==
  IF i >= Len(tokens) THEN ParseError   \* token is undefined: token.match throws
  ELSE
  LET token == tokens[i + 1]
  IN  CASE token = "×" -> ParseResult(context, i + 1, FORBIDDEN, TRUE)
        [] token = "!" -> ParseResult(context, i + 1, MANDATORY, TRUE)
        [] token = "÷" -> ParseResult(context, i + 1, ALLOWED, TRUE)
        [] token \in {"any", "sot", "eot"} ->
             ParseResult(Append(context, [type |-> "base", content |-> token]),
                         i + 1, result, FALSE)
        [] token = "eastasian" ->
             ParseResult(Append(context, [type |-> "eastasian", content |-> token]),
                         i + 1, result, FALSE)
        [] token = "extpict" ->
             ParseResult(Append(context, [type |-> "extpict", content |-> token]),
                         i + 1, result, FALSE)
        [] token \in DOMAIN CodePointLiterals ->
             ParseResult(Append(context, [type |-> "codepoint",
                                          content |-> CodePointLiterals[token]]),
                         i + 1, result, FALSE)
        [] token \in DOMAIN GeneralCategoryLiterals ->
             ParseResult(Append(context, [type |-> "gc",
                                          content |-> GeneralCategoryLiterals[token]]),
                         i + 1, result, FALSE)
        [] token \in ClassLiterals ->
             ParseResult(Append(context, [type |-> "class", content |-> token]),
                         i + 1, result, FALSE)
        [] token \in {"^", "&", "-", "*"} ->
             ParseResult(Append(context, [type |-> "modifier", content |-> token]),
                         i + 1, result, FALSE)
        [] token = "|" -> ParseResult(context, i + 1, result, FALSE)
        [] token = "(" ->
             LET r == parseBracket(tokens, i + 1, ")", << >>, result)
             IN  IF r.err THEN ParseError
                 ELSE ParseResult(Append(context, [type |-> "set",
                                                   content |-> r.context]),
                                  r.i + 1, r.result, FALSE)
        [] token = ")" -> ParseResult(context, i + 1, result, FALSE)
        [] token = "[" ->
             LET r == parseBracket(tokens, i + 1, "]", << >>, result)
             IN  IF r.err THEN ParseError
                 ELSE ParseResult(Append(context, [type |-> "sequence",
                                                   content |-> r.context]),
                                  r.i + 1, r.result, FALSE)
        [] token = "]" -> ParseResult(context, i + 1, result, FALSE)
        [] OTHER -> ParseError            \* Unrecognized token

IsArray(token) == token.type \in {"set", "sequence"}

RECURSIVE cleanPart(_)
cleanPart(part) ==
  LET flat == IF /\ part.type \in {"set", "sequence"}
                 /\ Len(part.content) = 1
                 /\ part.content[1].type = part.type
                THEN [part EXCEPT !.content = part.content[1].content]
                ELSE part
  IN  IF IsArray(flat)
        THEN [flat EXCEPT !.content =
                [k \in 1..Len(flat.content) |-> cleanPart(flat.content[k])]]
        ELSE flat

\* the loop of reverseSequences that swaps a modifier back before its operand;
\* i is the 0-based index of the source
RECURSIVE swapModifiers(_, _)
swapModifiers(content, i) ==
  IF i >= Len(content) THEN content
  ELSE IF content[i + 1].type = "modifier"
         THEN swapModifiers([content EXCEPT ![i + 1] = content[i],
                                            ![i] = content[i + 1]], i + 1)
         ELSE swapModifiers(content, i + 1)

Reverse(s) == [k \in 1..Len(s) |-> s[Len(s) + 1 - k]]

RECURSIVE reverseSequences(_)
reverseSequences(token) ==
  LET rev == IF token.type = "sequence"
               THEN [token EXCEPT !.content = swapModifiers(Reverse(token.content), 1)]
               ELSE token
  IN  IF IsArray(rev)
        THEN [rev EXCEPT !.content =
                [k \in 1..Len(rev.content) |-> reverseSequences(rev.content[k])]]
        ELSE rev

\* the loop of parseRule over the tokens; side is the content that context
\* refers to ("before" or "after")
RECURSIVE parseLoop(_, _, _, _, _, _)
parseLoop(tokens, i, before, after, side, result) ==
  IF i >= Len(tokens)
    THEN [before |-> before, after |-> after, result |-> result, err |-> FALSE]
    ELSE LET r == parseToken(tokens, i, IF side = "before" THEN before ELSE after,
                             result)
         IN  IF r.err
               THEN [before |-> before, after |-> after, result |-> result,
                     err |-> TRUE]
               ELSE parseLoop(tokens, r.i,
                              IF side = "before" THEN r.context ELSE before,
                              IF side = "before" THEN after ELSE r.context,
                              IF r.switched THEN "after" ELSE side,
                              r.result)

\* reverseBefore is true in every parser the checker makes
parseRule(rule) ==
  LET p == parseLoop(rule.str, 0, << >>, << >>, "before", UndefResult)
      before == cleanPart([type |-> "sequence", content |-> p.before])
      after == cleanPart([type |-> "sequence", content |-> p.after])
  IN  IF p.err
        THEN [before |-> [type |-> "sequence", content |-> << >>],
              after |-> [type |-> "sequence", content |-> << >>],
              name |-> rule.name, side_effect |-> rule.side_effect,
              result |-> UndefResult, err |-> TRUE]
        ELSE [before |-> reverseSequences(before), after |-> after,
              name |-> rule.name, side_effect |-> rule.side_effect,
              result |-> p.result, err |-> FALSE]

lineBreakingRulesV17 ==
  <<
    [str |-> <<"sot", "×", "any">>, side_effect |-> "none", name |-> "undefined"],
    [str |-> <<"any", "!", "eot">>, side_effect |-> "none", name |-> "undefined"],
    [str |-> <<"BK", "!", "any">>, side_effect |-> "none", name |-> "undefined"],
    [str |-> <<"CR", "×", "LF">>, side_effect |-> "none", name |-> "undefined"],
    [str |-> <<"(", "CR", "|", "LF", "|", "NL", ")", "!", "any">>, side_effect |-> "none", name |-> "undefined"],
    [str |-> <<"any", "×", "(", "BK", "|", "CR", "|", "LF", "|", "NL", ")">>, side_effect |-> "none", name |-> "undefined"],
    [str |-> <<"any", "×", "(", "SP", "|", "ZW", ")">>, side_effect |-> "none", name |-> "undefined"],
    [str |-> <<"[", "ZW", "*", "SP", "]", "÷", "any">>, side_effect |-> "none", name |-> "undefined"],
    [str |-> <<"ZWJ", "×", "any">>, side_effect |-> "none", name |-> "undefined"],
    [str |-> <<"^", "(", "sot", "|", "BK", "|", "CR", "|", "LF", "|", "NL", "|", "SP", "|", "ZW", ")", "×", "(", "CM", "|", "ZWJ", ")">>, side_effect |-> "cb", name |-> "std_remove_cm_sequences"],
    [str |-> <<"any", "×", "WJ">>, side_effect |-> "none", name |-> "undefined"],
    [str |-> <<"WJ", "×", "any">>, side_effect |-> "none", name |-> "undefined"],
    [str |-> <<"GL", "×", "any">>, side_effect |-> "none", name |-> "undefined"],
    [str |-> <<"^", "(", "SP", "|", "BA", "|", "HY", "|", "HH", ")", "×", "GL">>, side_effect |-> "none", name |-> "undefined"],
    [str |-> <<"any", "×", "(", "CL", "|", "CP", "|", "EX", "|", "SY", ")">>, side_effect |-> "none", name |-> "undefined"],
    [str |-> <<"[", "OP", "*", "SP", "]", "×", "any">>, side_effect |-> "none", name |-> "undefined"],
    [str |-> <<"[", "(", "sot", "|", "BK", "|", "CR", "|", "LF", "|", "NL", "|", "OP", "|", "QU", "|", "GL", "|", "SP", "|", "ZW", ")", "(", "gc(Pi)", "&", "QU", ")", "*", "SP", "]", "×", "any">>, side_effect |-> "none", name |-> "undefined"],
    [str |-> <<"any", "×", "[", "(", "gc(Pf)", "&", "QU", ")", "(", "SP", "|", "GL", "|", "WJ", "|", "CL", "|", "QU", "|", "CP", "|", "EX", "|", "IS", "|", "SY", "|", "BK", "|", "CR", "|", "LF", "|", "NL", "|", "ZW", "|", "eot", ")", "]">>, side_effect |-> "none", name |-> "undefined"],
    [str |-> <<"SP", "÷", "[", "IS", "NU", "]">>, side_effect |-> "none", name |-> "undefined"],
    [str |-> <<"any", "×", "IS">>, side_effect |-> "none", name |-> "undefined"],
    [str |-> <<"[", "(", "CL", "|", "CP", ")", "*", "SP", "]", "×", "NS">>, side_effect |-> "none", name |-> "undefined"],
    [str |-> <<"[", "B2", "*", "SP", "]", "×", "B2">>, side_effect |-> "none", name |-> "undefined"],
    [str |-> <<"SP", "÷", "any">>, side_effect |-> "none", name |-> "undefined"],
    [str |-> <<"any", "×", "(", "QU", "-", "gc(Pi)", ")">>, side_effect |-> "none", name |-> "undefined"],
    [str |-> <<"(", "QU", "-", "gc(Pf)", ")", "×", "any">>, side_effect |-> "none", name |-> "undefined"],
    [str |-> <<"^", "eastasian", "×", "QU">>, side_effect |-> "none", name |-> "undefined"],
    [str |-> <<"any", "×", "[", "QU", "(", "^", "eastasian", "|", "eot", ")", "]">>, side_effect |-> "none", name |-> "undefined"],
    [str |-> <<"QU", "×", "^", "eastasian">>, side_effect |-> "none", name |-> "undefined"],
    [str |-> <<"[", "(", "sot", "|", "^", "eastasian", ")", "QU", "]", "×", "any">>, side_effect |-> "none", name |-> "undefined"],
    [str |-> <<"any", "÷", "CB">>, side_effect |-> "none", name |-> "undefined"],
    [str |-> <<"CB", "÷", "any">>, side_effect |-> "none", name |-> "undefined"],
    [str |-> <<"[", "(", "sot", "|", "BK", "|", "CR", "|", "LF", "|", "NL", "|", "SP", "|", "ZW", "|", "CB", "|", "GL", ")", "(", "HY", "|", "HH", ")", "]", "×", "(", "AL", "|", "HL", ")">>, side_effect |-> "none", name |-> "undefined"],
    [str |-> <<"any", "×", "(", "BA", "|", "HH", "|", "HY", "|", "NS", ")">>, side_effect |-> "none", name |-> "undefined"],
    [str |-> <<"BB", "×", "any">>, side_effect |-> "none", name |-> "undefined"],
    [str |-> <<"[", "HL", "(", "HY", "|", "HH", ")", "]", "×", "^", "HL">>, side_effect |-> "none", name |-> "undefined"],
    [str |-> <<"SY", "×", "HL">>, side_effect |-> "none", name |-> "undefined"],
    [str |-> <<"any", "×", "IN">>, side_effect |-> "none", name |-> "undefined"],
    [str |-> <<"(", "AL", "|", "HL", ")", "×", "NU">>, side_effect |-> "none", name |-> "undefined"],
    [str |-> <<"NU", "×", "(", "AL", "|", "HL", ")">>, side_effect |-> "none", name |-> "undefined"],
    [str |-> <<"PR", "×", "(", "ID", "|", "EB", "|", "EM", ")">>, side_effect |-> "none", name |-> "undefined"],
    [str |-> <<"(", "ID", "|", "EB", "|", "EM", ")", "×", "PO">>, side_effect |-> "none", name |-> "undefined"],
    [str |-> <<"(", "PR", "|", "PO", ")", "×", "(", "AL", "|", "HL", ")">>, side_effect |-> "none", name |-> "undefined"],
    [str |-> <<"(", "AL", "|", "HL", ")", "×", "(", "PR", "|", "PO", ")">>, side_effect |-> "none", name |-> "undefined"],
    [str |-> <<"[", "NU", "*", "(", "SY", "|", "IS", ")", "(", "CL", "|", "CP", ")", "]", "×", "(", "PO", "|", "PR", ")">>, side_effect |-> "none", name |-> "undefined"],
    [str |-> <<"[", "NU", "*", "(", "SY", "|", "IS", ")", "]", "×", "(", "PO", "|", "PR", "|", "NU", ")">>, side_effect |-> "none", name |-> "undefined"],
    [str |-> <<"(", "PO", "|", "PR", ")", "×", "[", "OP", "NU", "]">>, side_effect |-> "none", name |-> "undefined"],
    [str |-> <<"(", "PO", "|", "PR", ")", "×", "[", "OP", "IS", "NU", "]">>, side_effect |-> "none", name |-> "undefined"],
    [str |-> <<"(", "PO", "|", "PR", "|", "HY", "|", "IS", ")", "×", "NU">>, side_effect |-> "none", name |-> "undefined"],
    [str |-> <<"JL", "×", "(", "JL", "|", "JV", "|", "H2", "|", "H3", ")">>, side_effect |-> "none", name |-> "undefined"],
    [str |-> <<"(", "JV", "|", "H2", ")", "×", "(", "JV", "|", "JT", ")">>, side_effect |-> "none", name |-> "undefined"],
    [str |-> <<"(", "JT", "|", "H3", ")", "×", "JT">>, side_effect |-> "none", name |-> "undefined"],
    [str |-> <<"(", "JL", "|", "JV", "|", "JT", "|", "H2", "|", "H3", ")", "×", "PO">>, side_effect |-> "none", name |-> "undefined"],
    [str |-> <<"PR", "×", "(", "JL", "|", "JV", "|", "JT", "|", "H2", "|", "H3", ")">>, side_effect |-> "none", name |-> "undefined"],
    [str |-> <<"(", "AL", "|", "HL", ")", "×", "(", "AL", "|", "HL", ")">>, side_effect |-> "none", name |-> "undefined"],
    [str |-> <<"AP", "×", "(", "AK", "|", "\\u25CC", "|", "AS", ")">>, side_effect |-> "none", name |-> "undefined"],
    [str |-> <<"(", "AK", "|", "\\u25CC", "|", "AS", ")", "×", "(", "VF", "|", "VI", ")">>, side_effect |-> "none", name |-> "undefined"],
    [str |-> <<"[", "(", "AK", "|", "\\u25CC", "|", "AS", ")", "VI", "]", "×", "(", "AK", "|", "\\u25CC", ")">>, side_effect |-> "none", name |-> "undefined"],
    [str |-> <<"(", "AK", "|", "\\u25CC", "|", "AS", ")", "×", "[", "(", "AK", "|", "\\u25CC", "|", "AS", ")", "VF", "]">>, side_effect |-> "none", name |-> "undefined"],
    [str |-> <<"IS", "×", "(", "AL", "|", "HL", ")">>, side_effect |-> "none", name |-> "undefined"],
    [str |-> <<"(", "AL", "|", "HL", "|", "NU", ")", "×", "(", "OP", "-", "eastasian", ")">>, side_effect |-> "none", name |-> "undefined"],
    [str |-> <<"(", "CP", "-", "eastasian", ")", "×", "(", "AL", "|", "HL", "|", "NU", ")">>, side_effect |-> "none", name |-> "undefined"],
    [str |-> <<"[", "sot", "*", "[", "RI", "RI", "]", "RI", "]", "×", "RI">>, side_effect |-> "none", name |-> "undefined"],
    [str |-> <<"[", "^", "RI", "*", "[", "RI", "RI", "]", "RI", "]", "×", "RI">>, side_effect |-> "none", name |-> "undefined"],
    [str |-> <<"EB", "×", "EM">>, side_effect |-> "none", name |-> "undefined"],
    [str |-> <<"(", "extpict", "&", "gc(Cn)", ")", "×", "EM">>, side_effect |-> "none", name |-> "undefined"],
    [str |-> <<"any", "÷", "any">>, side_effect |-> "none", name |-> "undefined"]
  >>

lineBreakingRulesV16 ==
  <<
    [str |-> <<"sot", "×", "any">>, side_effect |-> "none", name |-> "undefined"],
    [str |-> <<"any", "!", "eot">>, side_effect |-> "none", name |-> "undefined"],
    [str |-> <<"BK", "!", "any">>, side_effect |-> "none", name |-> "undefined"],
    [str |-> <<"CR", "×", "LF">>, side_effect |-> "none", name |-> "undefined"],
    [str |-> <<"(", "CR", "|", "LF", "|", "NL", ")", "!", "any">>, side_effect |-> "none", name |-> "undefined"],
    [str |-> <<"any", "×", "(", "BK", "|", "CR", "|", "LF", "|", "NL", ")">>, side_effect |-> "none", name |-> "undefined"],
    [str |-> <<"any", "×", "(", "SP", "|", "ZW", ")">>, side_effect |-> "none", name |-> "undefined"],
    [str |-> <<"[", "ZW", "*", "SP", "]", "÷", "any">>, side_effect |-> "none", name |-> "undefined"],
    [str |-> <<"ZWJ", "×", "any">>, side_effect |-> "none", name |-> "undefined"],
    [str |-> <<"^", "(", "sot", "|", "BK", "|", "CR", "|", "LF", "|", "NL", "|", "SP", "|", "ZW", ")", "×", "(", "CM", "|", "ZWJ", ")">>, side_effect |-> "cb", name |-> "std_remove_cm_sequences"],
    [str |-> <<"any", "×", "WJ">>, side_effect |-> "none", name |-> "undefined"],
    [str |-> <<"WJ", "×", "any">>, side_effect |-> "none", name |-> "undefined"],
    [str |-> <<"GL", "×", "any">>, side_effect |-> "none", name |-> "undefined"],
    [str |-> <<"^", "(", "SP", "|", "BA", "|", "HY", ")", "×", "GL">>, side_effect |-> "none", name |-> "undefined"],
    [str |-> <<"any", "×", "(", "CL", "|", "CP", "|", "EX", "|", "SY", ")">>, side_effect |-> "none", name |-> "undefined"],
    [str |-> <<"[", "OP", "*", "SP", "]", "×", "any">>, side_effect |-> "none", name |-> "undefined"],
    [str |-> <<"[", "(", "sot", "|", "BK", "|", "CR", "|", "LF", "|", "NL", "|", "OP", "|", "QU", "|", "GL", "|", "SP", "|", "ZW", ")", "(", "gc(Pi)", "&", "QU", ")", "*", "SP", "]", "×", "any">>, side_effect |-> "none", name |-> "undefined"],
    [str |-> <<"any", "×", "[", "(", "gc(Pf)", "&", "QU", ")", "(", "SP", "|", "GL", "|", "WJ", "|", "CL", "|", "QU", "|", "CP", "|", "EX", "|", "IS", "|", "SY", "|", "BK", "|", "CR", "|", "LF", "|", "NL", "|", "ZW", "|", "eot", ")", "]">>, side_effect |-> "none", name |-> "undefined"],
    [str |-> <<"SP", "÷", "[", "IS", "NU", "]">>, side_effect |-> "none", name |-> "undefined"],
    [str |-> <<"any", "×", "IS">>, side_effect |-> "none", name |-> "undefined"],
    [str |-> <<"[", "(", "CL", "|", "CP", ")", "*", "SP", "]", "×", "NS">>, side_effect |-> "none", name |-> "undefined"],
    [str |-> <<"[", "B2", "*", "SP", "]", "×", "B2">>, side_effect |-> "none", name |-> "undefined"],
    [str |-> <<"SP", "÷", "any">>, side_effect |-> "none", name |-> "undefined"],
    [str |-> <<"any", "×", "(", "QU", "-", "gc(Pi)", ")">>, side_effect |-> "none", name |-> "undefined"],
    [str |-> <<"(", "QU", "-", "gc(Pf)", ")", "×", "any">>, side_effect |-> "none", name |-> "undefined"],
    [str |-> <<"^", "eastasian", "×", "QU">>, side_effect |-> "none", name |-> "undefined"],
    [str |-> <<"any", "×", "[", "QU", "(", "^", "eastasian", "|", "eot", ")", "]">>, side_effect |-> "none", name |-> "undefined"],
    [str |-> <<"QU", "×", "^", "eastasian">>, side_effect |-> "none", name |-> "undefined"],
    [str |-> <<"[", "(", "sot", "|", "^", "eastasian", ")", "QU", "]", "×", "any">>, side_effect |-> "none", name |-> "undefined"],
    [str |-> <<"any", "÷", "CB">>, side_effect |-> "none", name |-> "undefined"],
    [str |-> <<"CB", "÷", "any">>, side_effect |-> "none", name |-> "undefined"],
    [str |-> <<"[", "(", "sot", "|", "BK", "|", "CR", "|", "LF", "|", "NL", "|", "SP", "|", "ZW", "|", "CB", "|", "GL", ")", "(", "HY", "|", "\\u2010", ")", "]", "×", "AL">>, side_effect |-> "none", name |-> "undefined"],
    [str |-> <<"any", "×", "(", "BA", "|", "HY", "|", "NS", ")">>, side_effect |-> "none", name |-> "undefined"],
    [str |-> <<"BB", "×", "any">>, side_effect |-> "none", name |-> "undefined"],
    [str |-> <<"[", "HL", "(", "HY", "|", "(", "BA", "-", "eastasian", ")", ")", "]", "×", "^", "HL">>, side_effect |-> "none", name |-> "undefined"],
    [str |-> <<"SY", "×", "HL">>, side_effect |-> "none", name |-> "undefined"],
    [str |-> <<"any", "×", "IN">>, side_effect |-> "none", name |-> "undefined"],
    [str |-> <<"(", "AL", "|", "HL", ")", "×", "NU">>, side_effect |-> "none", name |-> "undefined"],
    [str |-> <<"NU", "×", "(", "AL", "|", "HL", ")">>, side_effect |-> "none", name |-> "undefined"],
    [str |-> <<"PR", "×", "(", "ID", "|", "EB", "|", "EM", ")">>, side_effect |-> "none", name |-> "undefined"],
    [str |-> <<"(", "ID", "|", "EB", "|", "EM", ")", "×", "PO">>, side_effect |-> "none", name |-> "undefined"],
    [str |-> <<"(", "PR", "|", "PO", ")", "×", "(", "AL", "|", "HL", ")">>, side_effect |-> "none", name |-> "undefined"],
    [str |-> <<"(", "AL", "|", "HL", ")", "×", "(", "PR", "|", "PO", ")">>, side_effect |-> "none", name |-> "undefined"],
    [str |-> <<"[", "NU", "*", "(", "SY", "|", "IS", ")", "(", "CL", "|", "CP", ")", "]", "×", "(", "PO", "|", "PR", ")">>, side_effect |-> "none", name |-> "undefined"],
    [str |-> <<"[", "NU", "*", "(", "SY", "|", "IS", ")", "]", "×", "(", "PO", "|", "PR", "|", "NU", ")">>, side_effect |-> "none", name |-> "undefined"],
    [str |-> <<"(", "PO", "|", "PR", ")", "×", "[", "OP", "NU", "]">>, side_effect |-> "none", name |-> "undefined"],
    [str |-> <<"(", "PO", "|", "PR", ")", "×", "[", "OP", "IS", "NU", "]">>, side_effect |-> "none", name |-> "undefined"],
    [str |-> <<"(", "PO", "|", "PR", "|", "HY", "|", "IS", ")", "×", "NU">>, side_effect |-> "none", name |-> "undefined"],
    [str |-> <<"JL", "×", "(", "JL", "|", "JV", "|", "H2", "|", "H3", ")">>, side_effect |-> "none", name |-> "undefined"],
    [str |-> <<"(", "JV", "|", "H2", ")", "×", "(", "JV", "|", "JT", ")">>, side_effect |-> "none", name |-> "undefined"],
    [str |-> <<"(", "JT", "|", "H3", ")", "×", "JT">>, side_effect |-> "none", name |-> "undefined"],
    [str |-> <<"(", "JL", "|", "JV", "|", "JT", "|", "H2", "|", "H3", ")", "×", "PO">>, side_effect |-> "none", name |-> "undefined"],
    [str |-> <<"PR", "×", "(", "JL", "|", "JV", "|", "JT", "|", "H2", "|", "H3", ")">>, side_effect |-> "none", name |-> "undefined"],
    [str |-> <<"(", "AL", "|", "HL", ")", "×", "(", "AL", "|", "HL", ")">>, side_effect |-> "none", name |-> "undefined"],
    [str |-> <<"AP", "×", "(", "AK", "|", "\\u25CC", "|", "AS", ")">>, side_effect |-> "none", name |-> "undefined"],
    [str |-> <<"(", "AK", "|", "\\u25CC", "|", "AS", ")", "×", "(", "VF", "|", "VI", ")">>, side_effect |-> "none", name |-> "undefined"],
    [str |-> <<"[", "(", "AK", "|", "\\u25CC", "|", "AS", ")", "VI", "]", "×", "(", "AK", "|", "\\u25CC", ")">>, side_effect |-> "none", name |-> "undefined"],
    [str |-> <<"(", "AK", "|", "\\u25CC", "|", "AS", ")", "×", "[", "(", "AK", "|", "\\u25CC", "|", "AS", ")", "VF", "]">>, side_effect |-> "none", name |-> "undefined"],
    [str |-> <<"IS", "×", "(", "AL", "|", "HL", ")">>, side_effect |-> "none", name |-> "undefined"],
    [str |-> <<"(", "AL", "|", "HL", "|", "NU", ")", "×", "(", "OP", "-", "eastasian", ")">>, side_effect |-> "none", name |-> "undefined"],
    [str |-> <<"(", "CP", "-", "eastasian", ")", "×", "(", "AL", "|", "HL", "|", "NU", ")">>, side_effect |-> "none", name |-> "undefined"],
    [str |-> <<"[", "sot", "*", "[", "RI", "RI", "]", "RI", "]", "×", "RI">>, side_effect |-> "none", name |-> "undefined"],
    [str |-> <<"[", "^", "RI", "*", "[", "RI", "RI", "]", "RI", "]", "×", "RI">>, side_effect |-> "none", name |-> "undefined"],
    [str |-> <<"EB", "×", "EM">>, side_effect |-> "none", name |-> "undefined"],
    [str |-> <<"(", "extpict", "&", "gc(Cn)", ")", "×", "EM">>, side_effect |-> "none", name |-> "undefined"],
    [str |-> <<"any", "÷", "any">>, side_effect |-> "none", name |-> "undefined"]
  >>
(***************************************************************************)
(* The rule sets a checker is made with: the two standard ones and a       *)
(* custom one (a caller's own short list, ending without a catch-all).     *)
(***************************************************************************)
customRules ==
  <<
    [str |-> <<"sot", "×", "any">>, side_effect |-> "none", name |-> "undefined"],
    [str |-> <<"CR", "×", "LF">>, side_effect |-> "none", name |-> "undefined"],
    [str |-> <<"(", "CR", "|", "LF", "|", "NL", ")", "!", "any">>, side_effect |-> "none", name |-> "undefined"],
    [str |-> <<"^", "(", "sot", "|", "BK", "|", "CR", "|", "LF", "|", "NL", "|", "SP", "|", "ZW", ")", "×", "(", "CM", "|", "ZWJ", ")">>, side_effect |-> "cb", name |-> "std_remove_cm_sequences"],
    [str |-> <<"[", "ZW", "*", "SP", "]", "÷", "any">>, side_effect |-> "none", name |-> "undefined"],
    [str |-> <<"AL", "×", "(", "AL", "-", "gc(Lu)", ")">>, side_effect |-> "none", name |-> "undefined"],
    [str |-> <<"SP", "÷", "any">>, side_effect |-> "none", name |-> "undefined"]
  >>

\* a caller's list with one rule for each kind of token that reads a code point
kindRules ==
  <<
    [str |-> <<"AL", "×", "AL">>, side_effect |-> "none", name |-> "undefined"],
    [str |-> <<"gc(Lu)", "×", "gc(Lu)">>, side_effect |-> "none", name |-> "undefined"],
    [str |-> <<"\\u2010", "×", "\\u2010">>, side_effect |-> "none", name |-> "undefined"],
    [str |-> <<"eastasian", "×", "eastasian">>, side_effect |-> "none", name |-> "undefined"],
    [str |-> <<"extpict", "×", "extpict">>, side_effect |-> "none", name |-> "undefined"]
  >>

RuleSets ==
  [V17 |-> lineBreakingRulesV17, V16 |-> lineBreakingRulesV16,
   custom |-> customRules, kinds |-> kindRules]

\* #parseRules, for each rule set: the #rules of a checker made with it
parseRules == [key \in DOMAIN RuleSets |->
                 [k \in 1..Len(RuleSets[key]) |-> parseRule(RuleSets[key][k])]]

(***************************************************************************)
(* The criteria a checker is made with: none, or a function of the raw     *)
(* class and the General_Category.                                         *)
(***************************************************************************)
Criteria == {"none", "identity", "tailored"}

\* criteria(cls, gc): "identity" keeps the raw class; "tailored" resolves AI
\* and CJ as ID and SA by its General_Category
applyCriteria(criteria, cls, gc) ==
  CASE criteria = "identity" -> cls
    [] criteria = "tailored" ->
         IF cls \in {"AI", "CJ"} THEN "ID"
         ELSE IF cls = "SA" THEN (IF gc = "Mn" THEN "CM" ELSE "ID")
         ELSE cls

(***************************************************************************)
(* Text decoding: #setCodePoints.                                          *)
(***************************************************************************)
isSurrogate(n) == n >= 55296 /\ n <= 57343

\* isSurrogatePair that takes no two code units for a pair
isSurrogatePairNever(lead, trail) == FALSE

isSurrogatePair(lead, trail) ==
  lead >= 55296 /\ lead <= 56319 /\ trail >= 56320 /\ trail <= 57343

\* codePointAt that reads one code unit and never joins a surrogate pair
codePointAtUnit(text, i) == text[i + 1]

\* String.prototype.codePointAt for an index inside the string
codePointAt(text, i) ==
  IF i + 1 < Len(text) /\ isSurrogatePair(text[i + 1], text[i + 2])
    THEN 65536 + (text[i + 1] - 55296) * 1024 + (text[i + 2] - 56320)
    ELSE text[i + 1]

RECURSIVE setCodePointsLoop(_, _, _, _, _, _)
setCodePointsLoop(text, i, codePoints, offsetsSurrogates, offset, highSurrogate) ==
  IF i >= Len(text)
    THEN [codePoints |-> codePoints,
          offsetsSurrogates |-> Append(offsetsSurrogates, offset)]
    ELSE LET codePoint == codePointAt(text, i)
             pushed == IF ~highSurrogate THEN Append(codePoints, codePoint)
                       ELSE codePoints
         IN  IF codePoint > 65535
               THEN setCodePointsLoop(text, i + 1, pushed,
                                      Append(offsetsSurrogates, offset),
                                      offset + 1, TRUE)
               ELSE setCodePointsLoop(text, i + 1, pushed,
                                      Append(offsetsSurrogates, offset),
                                      offset, FALSE)

setCodePoints(text) == setCodePointsLoop(text, 0, << >>, << >>, 0, FALSE)

(***************************************************************************)
(* Class assignment: #assignLineBreakingClasses.                           *)
(***************************************************************************)
\* resolveClass whose default resolution leaves CJ as it is
resolveClassKeepingCJ(criteria, c) ==
  LET cls == getClsAndGC(c)[1]
      gc == getClsAndGC(c)[2]
  IN  IF criteria = "none"
        THEN CASE cls \in {"AI", "SG", "XX"} -> "AL"
               [] cls = "SA" -> IF gc = "Mn" \/ gc = "Mc" THEN "CM" ELSE "AL"
               [] OTHER -> cls
        ELSE applyCriteria(criteria, cls, gc)

\* resolveClass that resolves every SA as AL, and does so also when criteria
\* are given
resolveClassPlain(criteria, c) ==
  LET cls == getClsAndGC(c)[1]
      gc == getClsAndGC(c)[2]
  IN  CASE cls \in {"AI", "SG", "XX", "SA"} -> "AL"
        [] cls = "CJ" -> "NS"
        [] OTHER -> IF criteria = "none" THEN cls
                    ELSE applyCriteria(criteria, cls, gc)

resolveClass(criteria, c) ==
  LET cls == getClsAndGC(c)[1]
      gc == getClsAndGC(c)[2]
  IN  IF criteria = "none"
        THEN CASE cls \in {"AI", "SG", "XX"} -> "AL"
               [] cls = "SA" -> IF gc = "Mn" \/ gc = "Mc" THEN "CM" ELSE "AL"
               [] cls = "CJ" -> "NS"
               [] OTHER -> cls
        ELSE applyCriteria(criteria, cls, gc)

assignLineBreakingClasses(criteria, codePoints) ==
  [k \in 1..Len(codePoints) |-> resolveClass(criteria, codePoints[k])]

(***************************************************************************)
(* Combining-sequence transform: #setCombiningSequencesMaps.               *)
(***************************************************************************)
RECURSIVE setCombiningSequencesLoop(_, _, _, _, _, _, _, _)
setCombiningSequencesLoop(classes, codePoints, i, classesWithoutCS, codePointsWithoutCS, offsetsCombiningSeqs, prevCls, totOffset) ==
  IF i >= Len(classes)
    THEN [classesWithoutCS |-> classesWithoutCS,
          codePointsWithoutCS |-> codePointsWithoutCS,
          offsetsCombiningSeqs |-> Append(offsetsCombiningSeqs, totOffset)]
    ELSE LET el == classes[i + 1]
         IN  IF el \in {"CM", "ZWJ"}
               THEN IF prevCls = UndefCls
                       \/ prevCls \in {"SP", "BK", "CR", "LF", "NL", "ZW"}
                      THEN setCombiningSequencesLoop(classes, codePoints, i + 1,
                             Append(classesWithoutCS, "AL"),
                             Append(codePointsWithoutCS, 65),
                             Append(offsetsCombiningSeqs, totOffset),
                             el, totOffset)
                      ELSE setCombiningSequencesLoop(classes, codePoints, i + 1,
                             classesWithoutCS, codePointsWithoutCS,
                             Append(offsetsCombiningSeqs, totOffset + 1),
                             el, totOffset + 1)
               ELSE setCombiningSequencesLoop(classes, codePoints, i + 1,
                      Append(classesWithoutCS, el),
                      Append(codePointsWithoutCS, codePoints[i + 1]),
                      Append(offsetsCombiningSeqs, totOffset),
                      el, totOffset)

setCombiningSequencesMaps(classes, codePoints) ==
  setCombiningSequencesLoop(classes, codePoints, 0, << >>, << >>, << >>,
                            UndefCls, 0)

(***************************************************************************)
(* The matcher. A view v is the pair of arrays the checks read:            *)
(* this.#classes and this.#codePoints, either the original arrays or the   *)
(* ones without combining sequences.                                       *)
(***************************************************************************)
\* arr[i] of JavaScript: undefined outside the array (and for NaN)
At(arr, i, undef) == IF i >= 0 /\ i < Len(arr) THEN arr[i + 1] ELSE undef

\* i + step of JavaScript
Plus(i, step) == IF i = NaNIdx THEN NaNIdx ELSE i + step

\* what a check or #consumeToken returns; err tells that it threw
Consumed(result, index, next_token_index) ==
  [result |-> result, index |-> index, next_token_index |-> next_token_index,
   err |-> FALSE]

Thrown ==
  [result |-> FALSE, index |-> 0, next_token_index |-> UndefIdx, err |-> TRUE]

\* checkBase with an eot that never matches
checkBaseWithoutEot(v, base, i) ==
  CASE base = "any" -> Consumed(TRUE, i, UndefIdx)
    [] base = "sot" -> Consumed(i # NaNIdx /\ i < 0, i, UndefIdx)
    [] base = "eot" -> Consumed(FALSE, i, UndefIdx)
    [] OTHER -> Thrown

checkBase(v, base, i) ==
  CASE base = "any" -> Consumed(TRUE, i, UndefIdx)
    [] base = "sot" -> Consumed(i # NaNIdx /\ i < 0, i, UndefIdx)
    [] base = "eot" -> Consumed(i = Len(v.codePoints), i, UndefIdx)
    [] OTHER -> Thrown

\* checkClass reading the class one place further on
checkClassAhead(v, cls, i) == cls = At(v.classes, Plus(i, 1), UndefCls)

checkClass(v, cls, i) == cls = At(v.classes, i, UndefCls)

checkGeneralCategory(v, gc, i) ==
  gc = getGeneralCategory(At(v.codePoints, i, UndefCp))

checkCodePoint(v, cp, i) == cp = At(v.codePoints, i, UndefCp)

\* String.fromCodePoint(undefined) throws a RangeError
checkExtPict(v, i) ==
  IF At(v.codePoints, i, UndefCp) = UndefCp THEN Thrown
  ELSE Consumed(At(v.codePoints, i, UndefCp) \in ExtendedPictographic, i, UndefIdx)

checkEastAsian(v, i) == At(v.codePoints, i, UndefCp) \in eastAsianCodePoints

\* result.next_token_index ?? next_token_index + 1
Coalesce(r, next_token_index) ==
  IF r.next_token_index = UndefIdx THEN next_token_index + 1
  ELSE r.next_token_index

IsModifier(token, content) == token.type = "modifier" /\ token.content = content

RECURSIVE consumeToken(_, _, _, _, _, _, _)
RECURSIVE consumeStar(_, _, _, _, _, _)
RECURSIVE consumeSet(_, _, _, _, _, _, _)
RECURSIVE consumeSequence(_, _, _, _, _, _)

\* the while loop of the '*' modifier, from the result of the last evaluation
consumeStar(v, result, step, parent, next_token_index, operand) ==
  IF result.err THEN Thrown
  ELSE IF result.result /\ result.index > 0
          /\ result.index < Len(v.codePoints) - 1
    THEN consumeStar(v,
           consumeToken(v, operand, Plus(result.index, step), step, parent, FALSE,
                        next_token_index + 1),
           step, parent, next_token_index, operand)
    ELSE Consumed(TRUE, result.index, Coalesce(result, next_token_index))

\* the while loop of a set: start is the index the set was entered with, index
\* is result.index, prevFalse tells that result.result === false, token_i is
\* the next item
consumeSet(v, token, start, index, step, token_i, prevFalse) ==
  IF token_i >= Len(token.content) THEN Consumed(FALSE, start, UndefIdx)
  ELSE LET result == consumeToken(v, token.content[token_i + 1], index, step,
                                  token, prevFalse, token_i + 1)
           next_i == Coalesce(result, token_i)
       IN  IF result.err THEN Thrown
           ELSE IF /\ result.result
                   /\ \/ next_i >= Len(token.content)
                      \/ token.content[next_i + 1].type # "modifier"
                      \/ token.content[next_i + 1].content \in {"*", "^"}
             THEN Consumed(TRUE, start, UndefIdx)
             ELSE consumeSet(v, token, start, result.index, step, next_i,
                             ~result.result)

\* the while loop of a sequence: index is result.index, start the index the
\* sequence was entered with
consumeSequence(v, token, start, index, step, token_i) ==
  IF token_i >= Len(token.content) THEN Consumed(TRUE, index, UndefIdx)
  ELSE LET result == consumeToken(v, token.content[token_i + 1], index, step,
                                  token, FALSE, token_i + 1)
       IN  IF result.err THEN Thrown
           ELSE IF ~result.result THEN Consumed(FALSE, start, UndefIdx)
           ELSE consumeSequence(v, token, start,
                  IF IsModifier(token.content[token_i + 1], "*")
                    THEN result.index ELSE Plus(result.index, step),
                  step, Coalesce(result, token_i))

\* parent is a token, or NoParent for null; prevFalse is prev_result === false
consumeToken(v, token, i, step, parent, prevFalse, next_token_index) ==
  CASE token.type = "base" -> checkBase(v, token.content, i)
    [] token.type = "class" ->
         Consumed(checkClass(v, token.content, i), i, UndefIdx)
    [] token.type = "gc" ->
         Consumed(checkGeneralCategory(v, token.content, i), i, UndefIdx)
    [] token.type = "codepoint" ->
         Consumed(checkCodePoint(v, token.content, i), i, UndefIdx)
    [] token.type = "extpict" -> checkExtPict(v, i)
    [] token.type = "eastasian" -> Consumed(checkEastAsian(v, i), i, UndefIdx)
    [] token.type = "modifier" ->
         IF token.content \in {"&", "-"} /\ prevFalse
           THEN Consumed(FALSE, i, next_token_index + 1)
         \* parent.content[next_token_index] is undefined: reading its type throws
         ELSE IF parent.type = "null" \/ next_token_index >= Len(parent.content)
           THEN Thrown
         ELSE
         LET operand == parent.content[next_token_index + 1]
             result == consumeToken(v, operand, i, step, parent, prevFalse,
                                    next_token_index + 1)
         IN  IF result.err THEN Thrown
             ELSE CASE token.content = "^" ->
                         Consumed(~result.result, result.index,
                                  Coalesce(result, next_token_index))
                    [] token.content = "&" ->
                         Consumed(result.result, result.index,
                                  Coalesce(result, next_token_index))
                    [] token.content = "-" ->
                         Consumed(~result.result, result.index,
                                  Coalesce(result, next_token_index))
                    [] token.content = "*" ->
                         consumeStar(v, result, step, parent, next_token_index,
                                     operand)
                    [] OTHER -> Thrown
    [] token.type = "set" -> consumeSet(v, token, i, i, step, 0, FALSE)
    [] token.type = "sequence" -> consumeSequence(v, token, i, i, step, 0)
    [] OTHER -> Thrown

NoParent == [type |-> "null", content |-> << >>]

(***************************************************************************)
(* LineBreakingChecker. A checker is the record of its private fields;     *)
(* rules holds the key of its parsed rule set. Before the first setText    *)
(* the fields that setText assigns are undefined: defined is FALSE then.   *)
(***************************************************************************)
LineBreakingChecker(criteria, rules) ==
  [text |-> << >>, codePoints |-> << >>, offsetsSurrogates |-> << >>,
   assignLineBreakingClsCriteria |-> criteria, classes |-> << >>,
   rules |-> rules, origClasses |-> << >>, origCodePoints |-> << >>,
   classesWithoutCS |-> << >>, codePointsWithoutCS |-> << >>,
   offsetsCombiningSeqs |-> << >>, applyOffset |-> FALSE, defined |-> FALSE]

\* the rule names that registerSideEffectArguments has been given arguments for
sideEffectArguments == {"std_remove_cm_sequences"}

setText(self, t) ==
  LET cps == setCodePoints(t)
      cls == assignLineBreakingClasses(self.assignLineBreakingClsCriteria,
                                       cps.codePoints)
      maps == setCombiningSequencesMaps(cls, cps.codePoints)
  IN  [self EXCEPT !.text = t,
                   !.codePoints = cps.codePoints,
                   !.offsetsSurrogates = cps.offsetsSurrogates,
                   !.classes = cls,
                   !.classesWithoutCS = maps.classesWithoutCS,
                   !.codePointsWithoutCS = maps.codePointsWithoutCS,
                   !.offsetsCombiningSeqs = maps.offsetsCombiningSeqs,
                   !.applyOffset = FALSE,
                   !.origClasses = cls,
                   !.origCodePoints = cps.codePoints,
                   !.defined = TRUE]

removeCombiningSequences(self) ==
  [self EXCEPT !.classes = self.classesWithoutCS,
               !.codePoints = self.codePointsWithoutCS,
               !.applyOffset = TRUE]

\* the cleanup of isPosLineBreaking
cleanup(self) ==
  IF self.applyOffset
    THEN [self EXCEPT !.classes = self.origClasses,
                      !.codePoints = self.origCodePoints,
                      !.applyOffset = FALSE]
    ELSE self

\* the index that isPosLineBreaking passes to #checkRule
ruleIndex(self, i) ==
  LET offsetSurrogates == At(self.offsetsSurrogates, i, NaNIdx)
      cp == IF offsetSurrogates = NaNIdx THEN NaNIdx ELSE i - offsetSurrogates
      offsetCombining == At(self.offsetsCombiningSeqs, cp, NaNIdx)
  IN  IF cp = NaNIdx \/ offsetCombining = NaNIdx THEN NaNIdx
      ELSE IF self.applyOffset THEN cp - offsetCombining ELSE cp

\* #checkRule invoking the side effect of a rule whether or not it matched
checkRuleSideEffectFirst(self, rule, i) ==
  LET v == [classes |-> self.classes, codePoints |-> self.codePoints]
      invoked == rule.side_effect # "none" /\ rule.name \in sideEffectArguments
      check(before, after) ==
        [self |-> IF invoked THEN removeCombiningSequences(self) ELSE self,
         result |-> IF before.result /\ after.result THEN rule.result
                    ELSE UNKNOWN,
         matched |-> before.result /\ after.result,
         fired |-> invoked,
         err |-> before.err \/ (before.result /\ after.err)]
  IN  check(consumeToken(v, rule.before, Plus(i, 0 - 1), 0 - 1, NoParent,
                         FALSE, UndefIdx),
            consumeToken(v, rule.after, i, 1, NoParent, FALSE, UndefIdx))

\* #checkRule: the checker after it, the result, whether the rule matched,
\* whether its side effect was invoked, and whether it threw
checkRule(self, rule, i) ==
  LET v == [classes |-> self.classes, codePoints |-> self.codePoints]
      \* before && after, and what follows it
      check(before, after) ==
        IF before.err \/ (before.result /\ after.err)
          THEN [self |-> self, result |-> UNKNOWN, matched |-> FALSE,
                fired |-> FALSE, err |-> TRUE]
        ELSE IF before.result /\ after.result
          THEN [self |-> self, result |-> rule.result, matched |-> TRUE,
                fired |-> FALSE, err |-> FALSE]
        ELSE IF rule.side_effect = "none"
          THEN [self |-> self, result |-> UNKNOWN, matched |-> FALSE,
                fired |-> FALSE, err |-> FALSE]
        \* function(cb, ...args) { cb(...args) }: cb is undefined, and the
        \* call throws, when no arguments are registered under the rule's name
        ELSE IF rule.name \in sideEffectArguments
          THEN [self |-> removeCombiningSequences(self), result |-> UNKNOWN,
                matched |-> FALSE, fired |-> TRUE, err |-> FALSE]
          ELSE [self |-> self, result |-> UNKNOWN, matched |-> FALSE,
                fired |-> TRUE, err |-> TRUE]
  IN  check(consumeToken(v, rule.before, Plus(i, 0 - 1), 0 - 1, NoParent,
                         FALSE, UndefIdx),
            consumeToken(v, rule.after, i, 1, NoParent, FALSE, UndefIdx))

\* the body of the loop of isPosLineBreaking for the k-th rule: the checker
\* after it, the result, and how the loop goes on ("next", or "break", or
\* "throw" when the rule threw); log tells, for the rule, its number, the index
\* it was evaluated at, whether it matched and whether its side effect was
\* invoked
ruleStep(self, i, k) ==
  LET step(index, r) ==
        [self |-> r.self, result |-> r.result,
         outcome |-> IF r.err THEN "throw"
                     ELSE IF r.result # UNKNOWN THEN "break" ELSE "next",
         log |-> << [rule |-> k, index |-> index, matched |-> r.matched,
                     fired |-> r.fired] >>]
      at(index) == step(index, checkRule(self, parseRules[self.rules][k], index))
  IN  at(ruleIndex(self, i))

\* the loop of isPosLineBreaking over the rules lo..hi, in order: the rules
\* of the first half, then, unless the loop ended there, those of the second
\* (the halving keeps the depth of the evaluation logarithmic)
RECURSIVE ruleLoop(_, _, _, _)
ruleLoop(self, i, lo, hi) ==
  IF lo = hi THEN ruleStep(self, i, lo)
  ELSE LET mid == (lo + hi) \div 2
           join(first, second) ==
             IF first.outcome # "next" THEN first
             ELSE [second EXCEPT !.log = first.log \o second.log]
           then(first) == join(first, ruleLoop(first.self, i, mid + 1, hi))
       IN  then(ruleLoop(self, i, lo, mid))

\* isPosLineBreaking(i): the checker after the call, how the call ended
\* ("return" or "throw"), the result returned and the log of the rule loop
isPosLineBreaking(self, i) ==
  IF i > 0 /\ i < Len(self.text) /\ isSurrogatePair(self.text[i], self.text[i + 1])
    THEN [self |-> cleanup(self), result |-> FORBIDDEN, outcome |-> "return",
          log |-> << >>]
  \* this.#offsetsSurrogates is undefined: reading its element throws
  ELSE IF ~self.defined
    THEN [self |-> self, result |-> UNKNOWN, outcome |-> "throw", log |-> << >>]
  ELSE LET end(r) ==
             IF r.outcome = "throw"
               THEN [self |-> r.self, result |-> UNKNOWN, outcome |-> "throw",
                     log |-> r.log]
               ELSE [self |-> cleanup(r.self), result |-> r.result,
                     outcome |-> "return", log |-> r.log]
       IN  end(ruleLoop(self, i, 1, Len(parseRules[self.rules])))

\* ---------------------------------------------------------------------------
\* makeLBC: the tables of the module, memoised by the url of their source
\* ---------------------------------------------------------------------------

\* the largest number of makeLBC calls in flight at once
MaxCalls == 3

UndefUrl == "undefined"

DefaultClassesUrl == "../resources/LineBreak-17.0.0.json"

DefaultEastAsianUrl == "../resources/EastAsianChars.json"

ClassesUrls == {DefaultClassesUrl, "../resources/LineBreak-16.0.0.json"}

EastAsianUrls == {DefaultEastAsianUrl}

\* a sample of the compact json of a version: class, general category and
\* one range [b, e) or [b] of each entry, in the order of the file
CompactClasses(url) ==
  IF url = DefaultClassesUrl
    THEN << [cls |-> "AL", gc |-> "Ll", range |-> <<97, 100>>],
            [cls |-> "SP", gc |-> "Zs", range |-> <<32>>],
            [cls |-> "CM", gc |-> "Mn", range |-> <<768, 770>>] >>
    ELSE << [cls |-> "AL", gc |-> "Ll", range |-> <<97, 99>>],
            [cls |-> "LF", gc |-> "Cc", range |-> <<10>>] >>

EastAsianCharRanges(url) == << <<12353, 12355>>, <<19968, 19970>> >>

\* the nested loops that expand the compact classes into the array indexed
\* by code point
RECURSIVE expandClasses(_, _)
expandClasses(compact, classes) ==
  IF compact = << >> THEN classes
  ELSE LET b == Head(compact).range[1]
           e == IF Len(Head(compact).range) < 2 THEN b + 1 ELSE Head(compact).range[2]
       IN expandClasses(Tail(compact),
            [i \in (DOMAIN classes) \cup (b..(e - 1)) |->
               IF i \in b..(e - 1)
                 THEN [line_breaking_class |-> Head(compact).cls, general_category |-> Head(compact).gc]
                 ELSE classes[i]])

RECURSIVE expandEastAsian(_, _)
expandEastAsian(ranges, eaCodePoints) ==
  IF ranges = << >> THEN eaCodePoints
  ELSE expandEastAsian(Tail(ranges), eaCodePoints \cup (Head(ranges)[1]..(Head(ranges)[2] - 1)))

buildClasses(url) == expandClasses(CompactClasses(url), << >>)

buildEastAsian(url) == expandEastAsian(EastAsianCharRanges(url), {})

\* Map.prototype.set
mapSet(map, key, value) == [k \in (DOMAIN map) \cup {key} |-> IF k = key THEN value ELSE map[k]]

\* a membership test that never finds the key
hasNever(map, key) == FALSE

\* Map.prototype.has
has(map, key) == key \in DOMAIN map

NoTables == [classes |-> << >>, eastAsian |-> << >>]

\* both maps once every source has been loaded
LoadedTables == [classes |-> [url \in ClassesUrls |-> buildClasses(url)], eastAsian |-> [url \in EastAsianUrls |-> buildEastAsian(url)]]

NoTable == << >>

\* a makeLBC call that has not been made; classesSet and eastAsianSet hold
\* the table the call has installed, once it has
IdleCall == [pc |-> "idle", rules |-> UndefUrl, classesUrl |-> UndefUrl, eastAsianUrl |-> UndefUrl, classesCached |-> FALSE, eastAsianCached |-> FALSE, classesReads |-> 0, eastAsianReads |-> 0, classesSet |-> NoTable, eastAsianSet |-> NoTable, checker |-> FALSE]

NoCalls == [c \in 1..MaxCalls |-> IdleCall]

\* line 90: the checker is constructed and the promise resolved
construct(call, tabs) == [call |-> [call EXCEPT !.pc = "returned", !.checker = TRUE], tables |-> tabs]

\* lines 71-90, up to the first await
fromEastAsianCheck(call, tabs) ==
  LET url == IF call.eastAsianUrl = UndefUrl THEN DefaultEastAsianUrl ELSE call.eastAsianUrl
      checked == [call EXCEPT !.eastAsianUrl = url, !.eastAsianCached = url \in DOMAIN tabs.eastAsian]
  IN IF ~has(tabs.eastAsian, url)
       THEN [call |-> [checked EXCEPT !.pc = "fetchEastAsian", !.eastAsianReads = @ + 1], tables |-> tabs]
       ELSE construct(checked, tabs)

\* lines 45-90, up to the first await
fromClassesCheck(call, tabs) ==
  LET url == IF call.classesUrl = UndefUrl THEN DefaultClassesUrl ELSE call.classesUrl
      checked == [call EXCEPT !.classesUrl = url, !.classesCached = url \in DOMAIN tabs.classes]
  IN IF ~has(tabs.classes, url)
       THEN [call |-> [checked EXCEPT !.pc = "fetchClasses", !.classesReads = @ + 1], tables |-> tabs]
       ELSE fromEastAsianCheck(checked, tabs)

\* lines 58-69 and what follows them up to the next await
setClasses(call, tabs) ==
  LET classes == buildClasses(call.classesUrl)
  IN fromEastAsianCheck([call EXCEPT !.classesSet = << classes >>], [tabs EXCEPT !.classes = mapSet(@, call.classesUrl, classes)])

\* lines 84-90
setEastAsian(call, tabs) ==
  LET eaCodePoints == buildEastAsian(call.eastAsianUrl)
  IN construct([call EXCEPT !.eastAsianSet = << eaCodePoints >>], [tabs EXCEPT !.eastAsian = mapSet(@, call.eastAsianUrl, eaCodePoints)])
(***************************************************************************)
(* The segment iterator: [Symbol.iterator]().next().                       *)
(***************************************************************************)
\* a mask that lets every decided verdict through, FORBIDDEN too
isLineBreakDecided(result) == result # UNKNOWN

\* (result & lineBreak) !== 0, with lineBreak = MANDATORY | ALLOWED
isLineBreak(result) == result \in {MANDATORY, ALLOWED}

NoValue == [index |-> UndefIdx, breakType |-> UNKNOWN]

\* the loop of next(): calls lists the positions asked and the results got
RECURSIVE nextLoop(_, _, _)
nextLoop(self, current, calls) ==
  IF current + 1 > Len(self.text)
    THEN [self |-> self, current |-> current + 1, done |-> TRUE,
          value |-> NoValue, outcome |-> "return", calls |-> calls]
    ELSE LET called(r) == Append(calls, [pos |-> current + 1, result |-> r.result])
             loop(r) ==
               IF r.outcome = "throw"
                 THEN [self |-> r.self, current |-> current + 1, done |-> FALSE,
                       value |-> NoValue, outcome |-> "throw", calls |-> called(r)]
               ELSE IF isLineBreak(r.result)
                 THEN [self |-> r.self, current |-> current + 1, done |-> FALSE,
                       value |-> [index |-> current + 1, breakType |-> r.result],
                       outcome |-> "return", calls |-> called(r)]
                 ELSE nextLoop(r.self, current + 1, called(r))
         IN  loop(isPosLineBreaking(self, current + 1))

(***************************************************************************)
(* The state: one checker, one iterator over it, the record of the last    *)
(* public call and of how it ended, and the module's memoised tables with  *)
(* the makeLBC calls in flight.                                            *)
(***************************************************************************)
VARIABLES
  lbc,       \* the LineBreakingChecker
  it,        \* the iterator: whether one was made, its current, and whether
             \* its last next() reported done
  lastCall,  \* the last call made and its outcome
  alphabet,  \* the code units the caller's texts are made of
  tables,    \* the maps codePointsBLClasses and eastAsianCodePoints
  loads      \* the makeLBC calls: where each one stands and what it did

vars == << lbc, it, lastCall, alphabet, tables, loads >>

\* the texts a caller passes to setText: the strings over the alphabet
Texts == UNION { [1..n -> alphabet] : n \in 0..MaxLen }

\* the makeLBC calls of the model: rule set, criteria and the caller's alphabet
Configs ==
  { [rules |-> "V17", criteria |-> "none", alphabet |-> {13, 10, 97}],
    [rules |-> "V17", criteria |-> "none", alphabet |-> {12, 133, 32}],
    [rules |-> "V17", criteria |-> "none", alphabet |-> {55356, 56811, 97}],
    [rules |-> "V17", criteria |-> "none", alphabet |-> {97, 8205, 19968}],
    [rules |-> "V17", criteria |-> "none", alphabet |-> {97, 769, 32}],
    [rules |-> "V17", criteria |-> "none", alphabet |-> {3585, 3633, 167}],
    [rules |-> "V17", criteria |-> "none", alphabet |-> {12353, 57344, 169}],
    [rules |-> "V17", criteria |-> "none", alphabet |-> {10, 769, 97}],
    [rules |-> "V17", criteria |-> "none", alphabet |-> {97, 56319, 57343}],
    [rules |-> "V17", criteria |-> "none", alphabet |-> {97, 98, 32}],
    [rules |-> "V16", criteria |-> "none", alphabet |-> {13, 10, 32}],
    [rules |-> "V16", criteria |-> "none", alphabet |-> {4139, 3585, 12353}],
    [rules |-> "V17", criteria |-> "identity", alphabet |-> {3585, 3633, 167}],
    [rules |-> "V17", criteria |-> "tailored", alphabet |-> {3633, 12353, 97}],
    [rules |-> "custom", criteria |-> "none", alphabet |-> {13, 10, 97}],
    [rules |-> "custom", criteria |-> "none", alphabet |-> {97, 769, 32}],
    [rules |-> "custom", criteria |-> "none", alphabet |-> {8203, 32, 65}] }

Call(op, pos, outcome, result, log, value, done) ==
  [op |-> op, pos |-> pos, outcome |-> outcome, result |-> result,
   log |-> log, value |-> value, done |-> done, calls |-> << >>]

\* makeLBC(rules, criteria): the checker as constructed, no text set
Init ==
  \E c \in Configs :
    /\ lbc = LineBreakingChecker(c.criteria, c.rules)
    /\ alphabet = c.alphabet
    /\ it = [exists |-> FALSE, current |-> 0 - 1, done |-> FALSE]
    /\ lastCall = Call("makeLBC", UndefIdx, "return", UNKNOWN, << >>, NoValue, FALSE)
    /\ tables = LoadedTables
    /\ loads = NoCalls

SetText ==
  \E t \in Texts :
    /\ lbc' = setText(lbc, t)
    /\ lastCall' = Call("setText", UndefIdx, "return", UNKNOWN, << >>, NoValue, FALSE)
    /\ UNCHANGED << it, alphabet, tables, loads >>

\* isPosLineBreaking(i), also with i outside 0..text.length
IsPosLineBreaking ==
  \E i \in (0 - 1)..(Len(lbc.text) + 1) :
    LET call(r) ==
          /\ lbc' = r.self
          /\ lastCall' = Call("isPosLineBreaking", i, r.outcome, r.result,
                              r.log, NoValue, FALSE)
          /\ UNCHANGED << it, alphabet, tables, loads >>
    IN  call(isPosLineBreaking(lbc, i))

\* lbc[Symbol.iterator]()
Iterator ==
  /\ it' = [exists |-> TRUE, current |-> 0 - 1, done |-> FALSE]
  /\ lastCall' = Call("iterator", UndefIdx, "return", UNKNOWN, << >>, NoValue, FALSE)
  /\ UNCHANGED << lbc, alphabet, tables, loads >>

\* next() of the iterator; current grows with every call, also after done
IteratorNext ==
  /\ it.exists
  /\ it.current <= MaxLen + 1
  /\ LET next(r) ==
           /\ lbc' = r.self
           /\ it' = [it EXCEPT !.current = r.current, !.done = r.done]
           /\ lastCall' = [Call("next", it.current, r.outcome,
                                r.value.breakType, << >>, r.value, r.done)
                             EXCEPT !.calls = r.calls]
     IN  next(nextLoop(lbc, it.current, << >>))
  /\ UNCHANGED << alphabet, tables, loads >>

\* the calls of setText and isPosLineBreaking on a checker
Next == SetText \/ IsPosLineBreaking

Spec == Init /\ [][Next]_vars

\* a checker that is iterated: setText, [Symbol.iterator]() and next()
IterNext == SetText \/ Iterator \/ IteratorNext

IterSpec == Init /\ [][IterNext]_vars


(***************************************************************************)
(* Construction with a caller's rule: new LineBreakingChecker(criteria,    *)
(* rules, ...) parses every rule string before anything else exists. The   *)
(* rule list holds one rule string over the tokens below; "al" is a token  *)
(* that none of the cases of parseToken accepts.                           *)
(***************************************************************************)
RuleTokens == {"AL", "×", "÷", "(", ")", "[", "]", "al"}

\* what str.split(/\s+/) yields for the rule strings of the model
RuleStrings == UNION { [1..n -> RuleTokens] : n \in 1..MaxTokens }

\* no checker: the constructor has not returned
NoChecker == [defined |-> FALSE, constructed |-> FALSE, rules |-> << >>]

\* makeLBC([[str]]) has been called and is about to construct the checker
ParseInit ==
  \E str \in RuleStrings :
    /\ lbc = NoChecker
    /\ alphabet = {}
    /\ it = [exists |-> FALSE, current |-> 0 - 1, done |-> FALSE]
    /\ lastCall = [op |-> "makeLBC", outcome |-> "pending", parsed |-> << >>,
                   rules |-> << [str |-> str, side_effect |-> "none",
                                 name |-> "undefined"] >>]
    /\ tables = LoadedTables
    /\ loads = NoCalls

\* the constructor: this.#rules = this.#parseRules(rules); an error thrown
\* by parseRule ends the construction
Construct ==
  /\ lastCall.op = "makeLBC" /\ lastCall.outcome = "pending"
  /\ LET made(parsed) ==
           IF \E k \in 1..Len(parsed) : parsed[k].err
             THEN /\ lastCall' = [lastCall EXCEPT !.outcome = "throw"]
                  /\ lbc' = lbc
             ELSE /\ lastCall' = [lastCall EXCEPT !.outcome = "return",
                                                  !.parsed = parsed]
                  /\ lbc' = [defined |-> FALSE, constructed |-> TRUE,
                             rules |-> parsed]
     IN  made([k \in 1..Len(lastCall.rules) |-> parseRule(lastCall.rules[k])])
  /\ UNCHANGED << it, alphabet, tables, loads >>

ParseNext == Construct

ParseSpec == ParseInit /\ [][ParseNext]_vars

(***************************************************************************)
(* makeLBC calls in flight. A call runs without interruption from one      *)
(* await to the next; at an await any other call may run. Every step below *)
(* is one such uninterrupted stretch of one call.                          *)
(***************************************************************************)
CacheInit ==
  /\ tables = NoTables
  /\ loads = NoCalls
  /\ lbc = NoChecker
  /\ alphabet = {}
  /\ it = [exists |-> FALSE, current |-> 0 - 1, done |-> FALSE]
  /\ lastCall = Call("none", UndefIdx, "return", UNKNOWN, << >>, NoValue, FALSE)

\* what a stretch of call c leaves behind
Resume(c, r) ==
  /\ loads' = [loads EXCEPT ![c] = r.call]
  /\ tables' = r.tables
  /\ UNCHANGED << lbc, it, lastCall, alphabet >>

\* makeLBC(rules, criteria, compactClassesUrl, eastAsianCharRangesUrl) is
\* called: without rules it awaits their import, with rules it goes on to
\* the tables
MakeLBC(c) ==
  /\ loads[c].pc = "idle"
  /\ \E rules \in {UndefUrl, "given"}, classesUrl \in ClassesUrls \cup {UndefUrl}, eastAsianUrl \in EastAsianUrls \cup {UndefUrl} :
       LET called == [loads[c] EXCEPT !.rules = rules, !.classesUrl = classesUrl, !.eastAsianUrl = eastAsianUrl]
       IN IF rules = UndefUrl
            THEN Resume(c, [call |-> [called EXCEPT !.pc = "importRules"], tables |-> tables])
            ELSE Resume(c, fromClassesCheck(called, tables))

\* the import of the default rules has resolved
RulesImported(c) ==
  /\ loads[c].pc = "importRules"
  /\ Resume(c, fromClassesCheck([loads[c] EXCEPT !.rules = "default"], tables))

\* fetch(compactClassesUrl) has settled: res.json() is awaited, or the
\* catch clause imports the file
ClassesFetched(c) ==
  /\ loads[c].pc = "fetchClasses"
  /\ \/ Resume(c, [call |-> [loads[c] EXCEPT !.pc = "jsonClasses"], tables |-> tables])
     \/ Resume(c, [call |-> [loads[c] EXCEPT !.pc = "importClasses", !.classesReads = @ + 1], tables |-> tables])

\* res.json() has settled
ClassesParsed(c) ==
  /\ loads[c].pc = "jsonClasses"
  /\ \/ Resume(c, setClasses(loads[c], tables))
     \/ Resume(c, [call |-> [loads[c] EXCEPT !.pc = "importClasses", !.classesReads = @ + 1], tables |-> tables])

\* the import of the classes file has settled; its failure rejects makeLBC
ClassesImported(c) ==
  /\ loads[c].pc = "importClasses"
  /\ \/ Resume(c, setClasses(loads[c], tables))
     \/ Resume(c, [call |-> [loads[c] EXCEPT !.pc = "rejected"], tables |-> tables])

\* fetch(eastAsianCharRangesUrl) has settled
EastAsianFetched(c) ==
  /\ loads[c].pc = "fetchEastAsian"
  /\ \/ Resume(c, [call |-> [loads[c] EXCEPT !.pc = "jsonEastAsian"], tables |-> tables])
     \/ Resume(c, [call |-> [loads[c] EXCEPT !.pc = "importEastAsian", !.eastAsianReads = @ + 1], tables |-> tables])

\* res.json() has settled
EastAsianParsed(c) ==
  /\ loads[c].pc = "jsonEastAsian"
  /\ \/ Resume(c, setEastAsian(loads[c], tables))
     \/ Resume(c, [call |-> [loads[c] EXCEPT !.pc = "importEastAsian", !.eastAsianReads = @ + 1], tables |-> tables])

\* the import of the East Asian ranges has settled
EastAsianImported(c) ==
  /\ loads[c].pc = "importEastAsian"
  /\ \/ Resume(c, setEastAsian(loads[c], tables))
     \/ Resume(c, [call |-> [loads[c] EXCEPT !.pc = "rejected"], tables |-> tables])

CacheNext ==
  \E c \in 1..MaxCalls :
    \/ MakeLBC(c)
    \/ RulesImported(c)
    \/ ClassesFetched(c)
    \/ ClassesParsed(c)
    \/ ClassesImported(c)
    \/ EastAsianFetched(c)
    \/ EastAsianParsed(c)
    \/ EastAsianImported(c)

CacheSpec == CacheInit /\ [][CacheNext]_vars

(***************************************************************************)
(* Texts of whole symbols: runs of regional indicators and letters, long   *)
(* enough for runs of several pairs.                                       *)
(***************************************************************************)
\* the longest text, in symbols
MaxSymbols == 6

\* the letter a and the regional indicator U+1F1EB as UTF-16 code units
RunSymbols == { << 97 >>, << 55356, 56811 >> }

RECURSIVE Flatten(_)
Flatten(symbols) == IF symbols = << >> THEN << >> ELSE Head(symbols) \o Flatten(Tail(symbols))

RunTexts == { Flatten(s) : s \in UNION { [1..n -> RunSymbols] : n \in 0..MaxSymbols } }

RunConfigs == { [rules |-> "V17", criteria |-> "none"], [rules |-> "V16", criteria |-> "none"] }

RunInit ==
  \E c \in RunConfigs :
    /\ lbc = LineBreakingChecker(c.criteria, c.rules)
    /\ alphabet = {97, 55356, 56811}
    /\ it = [exists |-> FALSE, current |-> 0 - 1, done |-> FALSE]
    /\ lastCall = Call("makeLBC", UndefIdx, "return", UNKNOWN, << >>, NoValue, FALSE)
    /\ tables = LoadedTables
    /\ loads = NoCalls

\* setText with a text of whole symbols
SetRunText ==
  \E t \in RunTexts :
    /\ lbc' = setText(lbc, t)
    /\ lastCall' = Call("setText", UndefIdx, "return", UNKNOWN, << >>, NoValue, FALSE)
    /\ UNCHANGED << it, alphabet, tables, loads >>

RunNext == SetRunText \/ IsPosLineBreaking

RunSpec == RunInit /\ [][RunNext]_vars

(***************************************************************************)
(* #consumeToken on the modifier '*': the checker holds a text, and the    *)
(* token '* X' of a parsed rule is evaluated at an index of the text, the  *)
(* before pattern backwards and the after pattern forwards.                *)
(***************************************************************************)
\* the longest text, in code points
MaxStarLen == 4

StarTexts == UNION { [1..n -> {97, 32, 10}] : n \in 1..MaxStarLen }

\* rules '* X × * X' for X a class, a set and a sequence
StarRules ==
  { << "*", "SP", "×", "*", "SP" >>,
    << "*", "(", "SP", "|", "LF", ")", "×", "*", "(", "SP", "|", "LF", ")" >>,
    << "*", "[", "AL", "SP", "]", "×", "*", "[", "AL", "SP", "]" >> }

StarInit ==
  \E t \in StarTexts :
    /\ lbc = setText(LineBreakingChecker("none", "V17"), t)
    /\ alphabet = {97, 32, 10}
    /\ it = [exists |-> FALSE, current |-> 0 - 1, done |-> FALSE]
    /\ lastCall = [op |-> "setText", outcome |-> "return"]
    /\ tables = LoadedTables
    /\ loads = NoCalls

\* this.#consumeToken(parent.content[0], i, step, parent, undefined, 1) with
\* parent the before pattern (step -1) or the after pattern (step 1)
ConsumeToken ==
  \E str \in StarRules, step \in {0 - 1, 1}, i \in 0..(Len(lbc.codePoints) - 1) :
    LET consumed(parent) ==
          LET returned(r) ==
                lastCall' = [op |-> "consumeToken", parent |-> parent, pos |-> i, step |-> step,
                             outcome |-> IF r.err THEN "throw" ELSE "return",
                             result |-> r.result, index |-> r.index]
          IN returned(consumeToken(lbc, parent.content[1], i, step, parent, FALSE, 1))
        rule(parsed) == consumed(IF step = 1 THEN parsed.after ELSE parsed.before)
    IN /\ rule(parseRule([str |-> str, side_effect |-> "none", name |-> "undefined"]))
       /\ UNCHANGED << lbc, it, alphabet, tables, loads >>

StarNext == ConsumeToken

StarSpec == StarInit /\ [][StarNext]_vars

(***************************************************************************)
(* Texts with combining marks: a checker with the standard rules holds a   *)
(* text of whole symbols, and positions of it are asked.                   *)
(***************************************************************************)
\* the longest text, in symbols
MaxCombLen == 4

\* a, a combining acute accent, a space, a quotation mark and U+10FFFF, as
\* UTF-16 code units
CombSymbols == { << 97 >>, << 769 >>, << 32 >>, << 34 >>, << 56319, 57343 >> }

CombTexts == { Flatten(s) : s \in UNION { [1..n -> CombSymbols] : n \in 1..MaxCombLen } }

\* makeLBC(rules) and setText(t)
CombInit ==
  \E rules \in {"V17", "V16"}, t \in CombTexts :
    /\ lbc = setText(LineBreakingChecker("none", rules), t)
    /\ alphabet = {97, 769, 32, 34, 56319, 57343}
    /\ it = [exists |-> FALSE, current |-> 0 - 1, done |-> FALSE]
    /\ lastCall = Call("setText", UndefIdx, "return", UNKNOWN, << >>, NoValue, FALSE)
    /\ tables = LoadedTables
    /\ loads = NoCalls

CombNext == IsPosLineBreaking

CombSpec == CombInit /\ [][CombNext]_vars
(***************************************************************************)
(* #consumeToken on a set: the checker holds a text of one code point, and *)
(* the set of a parsed rule 'AL × ( items )' is evaluated at its index.    *)
(***************************************************************************)
\* the most items of a set
MaxItems == 3

\* the operands of the items: a class, a class and a general category
SetAtoms == {"AL", "SP", "gc(Lu)"}

\* an item: its operand, whether '^' precedes it, and the binary modifier
\* that joins it to the items before it ("|" for none)
SetItems == [op : {"|", "&", "-"}, neg : BOOLEAN, atom : SetAtoms]

SetSources == UNION { { s \in [1..n -> SetItems] : s[1].op = "|" } : n \in 1..MaxItems }

\* the tokens of one item as the rule string spells them
ItemTokens(item) ==
  (IF item.op = "|" THEN << >> ELSE << item.op >>)
    \o (IF item.neg THEN << "^" >> ELSE << >>) \o << item.atom >>

RECURSIVE ItemsTokens(_)
ItemsTokens(items) ==
  IF items = << >> THEN << >>
  ELSE ItemTokens(Head(items)) \o ItemsTokens(Tail(items))

\* a, A and a space
SetTexts == { << 97 >>, << 65 >>, << 32 >> }

SetInit ==
  \E t \in SetTexts, items \in SetSources :
    /\ lbc = setText(LineBreakingChecker("none", "V17"), t)
    /\ alphabet = {97, 65, 32}
    /\ it = [exists |-> FALSE, current |-> 0 - 1, done |-> FALSE]
    /\ lastCall = [op |-> "setText", outcome |-> "return", items |-> items]
    /\ tables = LoadedTables
    /\ loads = NoCalls

\* this.#consumeToken(parent.content[0], i, step, parent, undefined, 1) with
\* parent the after pattern of 'AL × ( items )' and parent.content[0] the set
ConsumeSet ==
  \E step \in {0 - 1, 1}, i \in 0..(Len(lbc.codePoints) - 1) :
    LET consumed(parent) ==
          LET returned(r) ==
                lastCall' = [op |-> "consumeToken", items |-> lastCall.items,
                             token |-> parent.content[1], pos |-> i, step |-> step,
                             outcome |-> IF r.err THEN "throw" ELSE "return",
                             result |-> r.result, index |-> r.index]
          IN returned(consumeToken(lbc, parent.content[1], i, step, parent, FALSE, 1))
    IN /\ consumed(parseRule([str |-> << "AL", "×", "(" >> \o ItemsTokens(lastCall.items) \o << ")" >>,
                              side_effect |-> "none", name |-> "undefined"]).after)
       /\ UNCHANGED << lbc, it, alphabet, tables, loads >>

SetNext == ConsumeSet

SetSpec == SetInit /\ [][SetNext]_vars

(***************************************************************************)
(* RuleParser.parseRule on nested patterns: the tokens of a pattern are    *)
(* drawn, and the rule string 'pattern × pattern' is parsed.               *)
(***************************************************************************)
\* an operand is an item preceded by its unary modifiers
Operands(mods, items) == { m \o x : m \in mods, x \in items }

PlainOrNot == { << >>, << "^" >> }
UnaryModifiers == PlainOrNot \cup { << "*" >>, << "*", "^" >> }

TreeAtoms == { << "AL" >>, << "SP" >> }

\* brackets of one or two operands
Brackets(first, second) ==
  { open \o content \o (IF open = << "[" >> THEN << "]" >> ELSE << ")" >>) :
      open \in { << "[" >>, << "(" >> },
      content \in first \cup { a \o b : a \in first, b \in second } }

TreesOfDepth1 == Brackets(Operands(PlainOrNot, TreeAtoms), Operands(PlainOrNot, TreeAtoms))

TreesOfDepth2 ==
  Brackets(Operands(PlainOrNot, TreeAtoms \cup TreesOfDepth1), Operands(PlainOrNot, TreeAtoms))

\* a bracket around a short bracket of depth 2 that opens with a bracket
TreesOfDepth3 == Brackets({ y \in TreesOfDepth2 : y[2] \in {"[", "("} /\ Len(y) <= 7 }, {})

\* the tokens of the pattern: one operand of any depth, alone or followed
\* by an operand without brackets
TreeSources ==
  LET first == Operands(UnaryModifiers, TreeAtoms \cup TreesOfDepth1 \cup TreesOfDepth2 \cup TreesOfDepth3)
  IN  first \cup { a \o b : a \in first, b \in Operands(UnaryModifiers, TreeAtoms) }

TreeInit ==
  \E source \in TreeSources :
    /\ lbc = NoChecker
    /\ alphabet = {}
    /\ it = [exists |-> FALSE, current |-> 0 - 1, done |-> FALSE]
    /\ lastCall = [op |-> "parseRule", outcome |-> "pending", source |-> source]
    /\ tables = LoadedTables
    /\ loads = NoCalls

\* new RuleParser().parseRule(['pattern × pattern'])
ParseRule ==
  /\ lastCall.op = "parseRule" /\ lastCall.outcome = "pending"
  /\ LET returned(parsed) ==
           lastCall' = [lastCall EXCEPT !.outcome = IF parsed.err THEN "throw" ELSE "return",
                                        !.source = lastCall.source]
                         @@ [parsed |-> parsed]
     IN  returned(parseRule([str |-> lastCall.source \o << "×" >> \o lastCall.source,
                             side_effect |-> "none", name |-> "undefined"]))
  /\ UNCHANGED << lbc, it, alphabet, tables, loads >>

TreeNext == ParseRule

TreeSpec == TreeInit /\ [][TreeNext]_vars

(***************************************************************************)
(* Tokens that read a code point: a checker made with kindRules holds a    *)
(* text; positions of it are asked, and the token of a rule is evaluated   *)
(* at an index, also outside the code points.                              *)
(***************************************************************************)
\* the longest text, in code points
MaxKindLen == 2

\* a, the copyright sign (Extended_Pictographic) and an ideograph (east asian)
KindTexts == UNION { [1..n -> {97, 169, 19968}] : n \in 0..MaxKindLen }

KindInit ==
  \E t \in KindTexts :
    /\ lbc = setText(LineBreakingChecker("none", "kinds"), t)
    /\ alphabet = {97, 169, 19968}
    /\ it = [exists |-> FALSE, current |-> 0 - 1, done |-> FALSE]
    /\ lastCall = Call("setText", UndefIdx, "return", UNKNOWN, << >>, NoValue, FALSE)
    /\ tables = LoadedTables
    /\ loads = NoCalls

\* this.#consumeToken(parent.content[0], i, 1, parent, undefined, 1) with
\* parent the after pattern of a rule
ConsumeKind ==
  \E k \in 1..Len(parseRules[lbc.rules]), i \in (0 - 2)..(Len(lbc.codePoints) + 1) :
    LET consumed(parent) ==
          LET returned(r) ==
                lastCall' = [op |-> "consumeToken", token |-> parent.content[1], pos |-> i,
                             outcome |-> IF r.err THEN "throw" ELSE "return",
                             result |-> r.result, index |-> r.index]
          IN returned(consumeToken(lbc, parent.content[1], i, 1, parent, FALSE, 1))
    IN /\ consumed(parseRules[lbc.rules][k].after)
       /\ UNCHANGED << lbc, it, alphabet, tables, loads >>

KindNext == IsPosLineBreaking \/ ConsumeKind

KindSpec == KindInit /\ [][KindNext]_vars


(***************************************************************************)
(* Properties.                                                             *)
(***************************************************************************)
StdRules == {"V17", "V16"}

HighSurrogate(u) == u \in 55296..56319

LowSurrogate(u) == u \in 56320..57343

\* position p lies between the two code units of a surrogate pair of text
InsideSurrogatePair(text, p) ==
  p > 0 /\ p < Len(text) /\ HighSurrogate(text[p]) /\ LowSurrogate(text[p + 1])

\* the last call was isPosLineBreaking on a checker whose text has been set
PositionAsked == lastCall.op = "isPosLineBreaking" /\ lbc.defined

\* C1: with the standard rules and a non-empty text, isPosLineBreaking(0)
\* returns FORBIDDEN and isPosLineBreaking(text.length) returns MANDATORY.
C1_BoundaryVerdicts ==
  (PositionAsked /\ lbc.rules \in StdRules /\ Len(lbc.text) > 0) =>
    /\ lastCall.pos = 0 =>
         lastCall.outcome = "return" /\ lastCall.result = FORBIDDEN
    /\ lastCall.pos = Len(lbc.text) =>
         lastCall.outcome = "return" /\ lastCall.result = MANDATORY

\* the end of a text whose last code unit is no hard break has been asked
C1_Witness ==
  /\ PositionAsked /\ lbc.rules \in StdRules /\ Len(lbc.text) > 1
  /\ lastCall.pos = Len(lbc.text) /\ lbc.text[Len(lbc.text)] = 97
  /\ lastCall.result = MANDATORY

\* C2: with the standard rules, at a position p with 0 < p <= text.length
\* the verdict is MANDATORY when the code point ending at p has class BK, LF
\* or NL, or has class CR and no LF follows; it is FORBIDDEN when that code
\* point is CR and LF follows, and MANDATORY again after that LF.
C2_HardBreaks ==
  (PositionAsked /\ lbc.rules \in StdRules
     /\ lastCall.pos > 0 /\ lastCall.pos <= Len(lbc.text)) =>
    LET p == lastCall.pos
        cls == getClass(lbc.text[p])
        lfFollows == p < Len(lbc.text) /\ getClass(lbc.text[p + 1]) = "LF"
    IN  /\ (cls \in {"BK", "LF", "NL"} \/ (cls = "CR" /\ ~lfFollows)) =>
             lastCall.outcome = "return" /\ lastCall.result = MANDATORY
        /\ (cls = "CR" /\ lfFollows) =>
             lastCall.outcome = "return" /\ lastCall.result = FORBIDDEN
        /\ (p > 1 /\ getClass(lbc.text[p - 1]) = "CR" /\ cls = "LF") =>
             lastCall.outcome = "return" /\ lastCall.result = MANDATORY

\* the position between CR and LF has been asked
C2_Witness ==
  /\ PositionAsked /\ lbc.rules \in StdRules
  /\ lastCall.pos > 0 /\ lastCall.pos < Len(lbc.text)
  /\ lbc.text[lastCall.pos] = 13 /\ lbc.text[lastCall.pos + 1] = 10
  /\ lastCall.result = FORBIDDEN

\* C3: at a position between the high and the low code unit of a surrogate
\* pair isPosLineBreaking returns FORBIDDEN without evaluating any rule, so
\* that no side effect is invoked.
C3_SurrogateSafety ==
  (PositionAsked /\ InsideSurrogatePair(lbc.text, lastCall.pos)) =>
    /\ lastCall.outcome = "return"
    /\ lastCall.result = FORBIDDEN
    /\ lastCall.log = << >>

\* the inside of a surrogate pair has been asked
C3_Witness ==
  /\ PositionAsked /\ InsideSurrogatePair(lbc.text, lastCall.pos)
  /\ lastCall.result = FORBIDDEN

\* the arrays that the j-th rule evaluated by a call read: those active when
\* the call began or, once a side effect has been invoked, the ones without
\* combining sequences
ViewOfEvaluation(pre, log, j) ==
  IF \E m \in 1..(j - 1) : log[m].fired
    THEN [classes |-> pre.classesWithoutCS,
          codePoints |-> pre.codePointsWithoutCS]
    ELSE [classes |-> pre.classes, codePoints |-> pre.codePoints]

\* the before pattern matches leftward from index - 1 and the after pattern
\* rightward from index
PatternsMatch(v, rule, index) ==
  /\ consumeToken(v, rule.before, Plus(index, 0 - 1), 0 - 1, NoParent, FALSE,
                  UndefIdx).result
  /\ consumeToken(v, rule.after, index, 1, NoParent, FALSE, UndefIdx).result

\* the number of surrogate pairs that end at or before position p
PairsBefore(text, p) ==
  Cardinality({k \in 1..(p - 1) : InsideSurrogatePair(text, k)})

\* what C4 asks of a call that returned: pre is the checker before the call
RuleLoopProtocol(pre, call) ==
  LET log == call.log
      rules == parseRules[pre.rules]
      last == Len(log)
  IN  /\ last <= Len(rules)
      /\ \A j \in 1..last :
           /\ log[j].rule = j
           /\ log[j].matched <=>
                PatternsMatch(ViewOfEvaluation(pre, log, j), rules[j],
                              log[j].index)
           /\ log[j].matched => j = last
           /\ log[j].fired <=>
                (~log[j].matched /\ rules[j].side_effect # "none")
           /\ (~pre.applyOffset /\ ~\E m \in 1..(j - 1) : log[m].fired) =>
                log[j].index = call.pos - PairsBefore(pre.text, call.pos)
      /\ IF last > 0 /\ log[last].matched
           THEN call.result = rules[last].result
           ELSE call.result = UNKNOWN /\ last = Len(rules)

\* C4: a call of isPosLineBreaking that returns, at a position not inside a
\* surrogate pair, has evaluated the rules in declaration order from the
\* first one; a rule matched exactly when its before pattern matches
\* leftward from i - 1 and its after pattern rightward from i; only the last
\* rule evaluated can have matched, and its result is returned; a side
\* effect was invoked exactly for the evaluated rules that have one and did
\* not match; when no rule matched all were evaluated and UNKNOWN is
\* returned.
C4_RuleLoop ==
  [][(/\ lastCall'.op = "isPosLineBreaking"
      /\ lastCall'.outcome = "return"
      /\ lbc.defined
      /\ lastCall'.pos \in 0..Len(lbc.text)
      /\ ~InsideSurrogatePair(lbc.text, lastCall'.pos))
     => RuleLoopProtocol(lbc, lastCall')]_vars

\* a call returned the result of a rule that follows one whose side effect
\* was invoked
C4_Witness ==
  /\ PositionAsked /\ lastCall.outcome = "return"
  /\ lastCall.pos \in 0..Len(lbc.text)
  /\ lastCall.result = ALLOWED
  /\ \E j \in 1..Len(lastCall.log) : lastCall.log[j].fired
  /\ lastCall.log[Len(lastCall.log)].matched

\* what C5 asks of a call of next(): self is the checker, current the
\* iterator's position before the call, call its record and after the
\* iterator after it
IteratorProtocol(self, current, call, after) ==
  LET n == Len(self.text)
      calls == call.calls
      breaks(p) == isPosLineBreaking(self, p).result \in {MANDATORY, ALLOWED}
  IN  /\ call.outcome = "return"
      /\ after.current > current
      /\ after.done = call.done
      /\ \A j \in 1..Len(calls) :
           /\ calls[j].pos = current + j
           /\ calls[j].pos \in 0..n
           /\ calls[j].result = isPosLineBreaking(self, calls[j].pos).result
      /\ call.done <=> \A p \in (current + 1)..n : ~breaks(p)
      /\ call.done =>
           /\ after.current > n
           /\ Len(calls) = IF current < n THEN n - current ELSE 0
      /\ ~call.done =>
           /\ call.value.index = after.current
           /\ call.value.index \in (current + 1)..n
           /\ Len(calls) = call.value.index - current
           /\ call.value.breakType =
                isPosLineBreaking(self, call.value.index).result
           /\ call.value.breakType \in {MANDATORY, ALLOWED}
           /\ \A p \in (current + 1)..(call.value.index - 1) : ~breaks(p)

\* C5: every next() of an iterator over a checker with a text asks the
\* positions after its current one in increasing order, none beyond
\* text.length; it yields the first of them whose verdict is MANDATORY or
\* ALLOWED, with that verdict as breakType, and passes over those whose
\* verdict is UNKNOWN or FORBIDDEN; it reports done exactly when no position
\* up to text.length is left to yield. The position grows with every call, so
\* that the yielded indices increase strictly and done comes after at most
\* text.length + 2 calls, and is reported again by every later call.
C5_IteratorPositions ==
  [][(lastCall'.op = "next" /\ lbc.defined)
     => IteratorProtocol(lbc, it.current, lastCall', it')]_vars

\* a next() passed over a position and yielded a later one
C5_Witness ==
  /\ lastCall.op = "next" /\ lastCall.outcome = "return" /\ ~lastCall.done
  /\ Len(lastCall.calls) >= 2
  /\ lastCall.value.breakType = ALLOWED
  /\ lastCall.value.index < Len(lbc.text)

\* C6: every record that next() yields has a text field, the substring of
\* the text from the index yielded before (or the start) up to its index.
C6_IteratorText ==
  (lastCall.op = "next" /\ lastCall.outcome = "return" /\ ~lastCall.done) =>
    /\ "text" \in DOMAIN lastCall.value
    /\ lastCall.value.text =
         SubSeq(lbc.text, (IF lastCall.pos < 0 THEN 0 ELSE lastCall.pos) + 1,
                lastCall.value.index)

\* C7: isPosLineBreaking at a position below 0 or above text.length throws.
C7_OutOfRangeThrows ==
  (PositionAsked /\ (lastCall.pos < 0 \/ lastCall.pos > Len(lbc.text))) =>
    lastCall.outcome = "throw"

\* C8: between the public calls of a checker with a text, applyOffset is
\* false and the active classes and code points are the original arrays.
C8_ViewRestored ==
  lbc.defined =>
    /\ ~lbc.applyOffset
    /\ lbc.classes = lbc.origClasses
    /\ lbc.codePoints = lbc.origCodePoints

\* C9: the verdict that isPosLineBreaking returns at a position of the text
\* is the one a new checker with the same rules and criteria returns for the
\* same text and position.
C9_HistoryIndependence ==
  (PositionAsked /\ lastCall.pos \in 0..Len(lbc.text)) =>
    LET same(fresh) ==
          lastCall.outcome = fresh.outcome /\ lastCall.result = fresh.result
    IN  same(isPosLineBreaking(
               setText(LineBreakingChecker(lbc.assignLineBreakingClsCriteria,
                                           lbc.rules), lbc.text),
               lastCall.pos))

\* the class that C10 expects for raw class c and General_Category g
ExpectedClass(criteria, c, g) ==
  IF criteria # "none" THEN applyCriteria(criteria, c, g)
  ELSE IF c \in {"AI", "SG", "XX"} THEN "AL"
  ELSE IF c = "SA" THEN (IF g \in {"Mn", "Mc"} THEN "CM" ELSE "AL")
  ELSE IF c = "CJ" THEN "NS"
  ELSE c

\* C10: after setText the class stored for each code point is the criteria's
\* value for its raw class and General_Category when criteria were given,
\* and otherwise AL for AI, SG and XX, CM for SA with General_Category Mn or
\* Mc, AL for any other SA, NS for CJ, and the raw class for the rest.
C10_ClassAssignment ==
  lastCall.op = "setText" =>
    /\ Len(lbc.classes) = Len(lbc.codePoints)
    /\ lbc.origClasses = lbc.classes
    /\ \A k \in 1..Len(lbc.codePoints) :
         lbc.classes[k] =
           ExpectedClass(lbc.assignLineBreakingClsCriteria,
                         getClass(lbc.codePoints[k]),
                         getGeneralCategory(lbc.codePoints[k]))

\* a text with an SA mark, resolved without criteria, has been set
C10_Witness ==
  /\ lastCall.op = "setText"
  /\ lbc.assignLineBreakingClsCriteria = "none"
  /\ \E k \in 1..Len(lbc.codePoints) :
       getClass(lbc.codePoints[k]) = "SA" /\ lbc.classes[k] = "CM"

\* the classes that class assignment is to resolve
UnresolvedClasses == {"AI", "SG", "XX", "SA", "CJ"}

\* no class array that the matcher can read holds an unresolved class
OnlyResolvedClasses ==
  \A arr \in {lbc.origClasses, lbc.classes, lbc.classesWithoutCS} :
    \A k \in 1..Len(arr) : arr[k] \notin UnresolvedClasses

\* C11 (as stated): once a text is set, neither the original nor the
\* transformed class array holds one of the classes AI, SG, XX, SA, CJ.
C11_OnlyResolvedClasses == lbc.defined => OnlyResolvedClasses

\* C11 (amended): the same for a checker made without criteria; criteria's
\* value is stored as it is, resolved or not.
C11_OnlyResolvedClassesByDefault ==
  (lbc.defined /\ lbc.assignLineBreakingClsCriteria = "none") =>
    OnlyResolvedClasses

\* a text of code points of raw class SA, CJ and XX was set without criteria
C11_Witness ==
  /\ lastCall.op = "setText"
  /\ lbc.assignLineBreakingClsCriteria = "none"
  /\ \E k \in 1..Len(lbc.codePoints) :
       getClass(lbc.codePoints[k]) \in {"CJ", "XX"}
  /\ OnlyResolvedClasses

\* the code point has no entry in the class table
Unlisted(codePoint) == codePoint \notin DOMAIN codePointsBLClasses

\* text with every surrogate pair of an unlisted code point replaced by the
\* pair of U+10000, a code point of class AL
RECURSIVE WithALForUnlisted(_)
WithALForUnlisted(text) ==
  IF Len(text) = 0 THEN << >>
  ELSE IF Len(text) > 1 /\ HighSurrogate(text[1]) /\ LowSurrogate(text[2])
          /\ Unlisted(codePointAt(text, 0))
    THEN << 55296, 56320 >> \o WithALForUnlisted(SubSeq(text, 3, Len(text)))
    ELSE << text[1] >> \o WithALForUnlisted(Tail(text))

\* C12: setText gives a code point without entry in the class table the
\* class AL and the General_Category Cn, and isPosLineBreaking on a text
\* with such a code point returns, with the verdict it returns when an AL
\* code point stands in its place.
C12_UnlistedIsAL ==
  (lbc.defined /\ lbc.assignLineBreakingClsCriteria = "none") =>
    /\ \A k \in 1..Len(lbc.origCodePoints) :
         Unlisted(lbc.origCodePoints[k]) =>
           /\ lbc.origClasses[k] = "AL"
           /\ getClsAndGC(lbc.origCodePoints[k])[2] = "Cn"
    /\ (lastCall.op = "isPosLineBreaking"
          /\ lastCall.pos \in 0..Len(lbc.text)) =>
         /\ lastCall.outcome = "return"
         /\ lastCall.result =
              isPosLineBreaking(
                setText(LineBreakingChecker("none", lbc.rules),
                        WithALForUnlisted(lbc.text)),
                lastCall.pos).result

\* the rule string that the checker was to be constructed with
RuleGiven == lastCall.rules[1].str

\* the constructor has ended, by returning or by throwing
Constructed == lastCall.op = "makeLBC" /\ lastCall.outcome # "pending"

\* the tokens that parseToken has a case for, among those of the model
Recognised(token) == token \in {"AL", "×", "÷", "(", ")", "[", "]"}

\* the brackets of tokens[i..] are balanced when open is the stack of the
\* brackets opened so far: every closer closes the last opened bracket of
\* its kind, and none is left open
RECURSIVE BalancedFrom(_, _, _)
BalancedFrom(tokens, i, open) ==
  IF i > Len(tokens) THEN open = << >>
  ELSE IF tokens[i] \in {"(", "["}
    THEN BalancedFrom(tokens, i + 1, << tokens[i] >> \o open)
  ELSE IF tokens[i] \in {")", "]"}
    THEN /\ open # << >>
         /\ open[1] = (IF tokens[i] = ")" THEN "(" ELSE "[")
         /\ BalancedFrom(tokens, i + 1, Tail(open))
  ELSE BalancedFrom(tokens, i + 1, open)

Malformed(tokens) ==
  \/ \E k \in 1..Len(tokens) : ~Recognised(tokens[k])
  \/ ~BalancedFrom(tokens, 1, << >>)

\* C13: constructing a checker with a rule string that holds an
\* unrecognised token or an unbalanced bracket throws, and no rule tree is
\* produced.
C13_MalformedRejected ==
  (Constructed /\ Malformed(RuleGiven)) =>
    lastCall.outcome = "throw" /\ lastCall.parsed = << >> /\ ~lbc.constructed

\* the number of verdict symbols among tokens
VerdictSymbols(tokens) ==
  Cardinality({k \in 1..Len(tokens) : tokens[k] \in {"×", "!", "÷"}})

\* C14: every rule that the constructor parsed has exactly one verdict
\* symbol, a result among FORBIDDEN, MANDATORY and ALLOWED, and a
\* non-empty before and after pattern.
C14_OneVerdict ==
  (Constructed /\ lastCall.outcome = "return") =>
    /\ VerdictSymbols(RuleGiven) = 1
    /\ lastCall.parsed[1].result \in {FORBIDDEN, MANDATORY, ALLOWED}
    /\ lastCall.parsed[1].before.content # << >>
    /\ lastCall.parsed[1].after.content # << >>

\* a makeLBC call that has checked the cache of the classes
CheckedClasses(c) == loads[c].pc \notin {"idle", "importRules"}

\* a makeLBC call that has checked the cache of the East Asian code points
CheckedEastAsian(c) == loads[c].pc \in {"fetchEastAsian", "jsonEastAsian", "importEastAsian", "returned"} \/ (loads[c].pc = "rejected" /\ loads[c].eastAsianReads > 0)

\* C15: a makeLBC call that checks the cache when the table of its key is
\* installed neither reads nor builds that table; calls that load the same
\* key install equal tables; a checker is constructed only when the tables
\* of both its keys are in the cache, completely built.
C15_TableMemoisation ==
  \A c \in 1..MaxCalls :
    /\ (CheckedClasses(c) /\ loads[c].classesCached) => (loads[c].classesReads = 0 /\ loads[c].classesSet = NoTable)
    /\ (CheckedEastAsian(c) /\ loads[c].eastAsianCached) => (loads[c].eastAsianReads = 0 /\ loads[c].eastAsianSet = NoTable)
    /\ \A d \in 1..MaxCalls :
         /\ (loads[c].classesUrl = loads[d].classesUrl /\ loads[c].classesSet # NoTable /\ loads[d].classesSet # NoTable) => loads[c].classesSet = loads[d].classesSet
         /\ (loads[c].eastAsianUrl = loads[d].eastAsianUrl /\ loads[c].eastAsianSet # NoTable /\ loads[d].eastAsianSet # NoTable) => loads[c].eastAsianSet = loads[d].eastAsianSet
    /\ loads[c].checker =>
         /\ loads[c].classesUrl \in DOMAIN tables.classes
         /\ tables.classes[loads[c].classesUrl] = buildClasses(loads[c].classesUrl)
         /\ loads[c].eastAsianUrl \in DOMAIN tables.eastAsian
         /\ tables.eastAsian[loads[c].eastAsianUrl] = buildEastAsian(loads[c].eastAsianUrl)

\* two calls have each loaded the classes of the same key, and a third call
\* that found them in the cache has constructed its checker
C15_Witness ==
  \E c, d, e \in 1..MaxCalls :
    /\ c # d
    /\ loads[c].classesUrl = loads[d].classesUrl
    /\ loads[c].classesSet # NoTable /\ loads[d].classesSet # NoTable
    /\ loads[e].classesUrl = loads[c].classesUrl
    /\ loads[e].classesCached /\ loads[e].checker

\* isPosLineBreaking(3) was the last call on a checker with the standard
\* rules, no criteria and the text "ab "
AskedAfterTrailingSpace ==
  /\ PositionAsked /\ lbc.rules \in StdRules /\ lbc.assignLineBreakingClsCriteria = "none"
  /\ lbc.text = << 97, 98, 32 >> /\ lastCall.pos = 3

\* C16: for the text "ab " isPosLineBreaking(3), the position after the
\* space, returns ALLOWED.
C16_BreakAfterTrailingSpace ==
  AskedAfterTrailingSpace => (lastCall.outcome = "return" /\ lastCall.result = ALLOWED)

\* C16 (amended): for the text "ab " isPosLineBreaking(3), the position after
\* the space, is the end of the text and returns MANDATORY.
C16_BreakAtEndAfterSpace ==
  AskedAfterTrailingSpace => (lastCall.outcome = "return" /\ lastCall.result = MANDATORY)

\* position 3 of "ab " has been asked and the call has returned
C16_Witness == AskedAfterTrailingSpace /\ lastCall.outcome = "return"

\* the code units k and k + 1 of text (counted from 1) are a regional indicator
RegionalIndicatorAt(text, k) ==
  /\ k >= 1 /\ k + 1 <= Len(text)
  /\ isSurrogatePair(text[k], text[k + 1])
  /\ getClass(codePointAt(text, k - 1)) = "RI"

\* the number of regional indicators in a row that end at position p
RECURSIVE RunBefore(_, _)
RunBefore(text, p) ==
  IF RegionalIndicatorAt(text, p - 1) THEN 1 + RunBefore(text, p - 2) ELSE 0

\* isPosLineBreaking was asked, with the standard rules and no criteria,
\* at a position between two regional indicators
AskedBetweenIndicators ==
  /\ PositionAsked /\ lbc.rules \in StdRules /\ lbc.assignLineBreakingClsCriteria = "none"
  /\ RegionalIndicatorAt(lbc.text, lastCall.pos - 1)
  /\ RegionalIndicatorAt(lbc.text, lastCall.pos + 1)

\* C18: between two regional indicators the verdict is FORBIDDEN when the
\* run of regional indicators that ends at the position has odd length and
\* ALLOWED when it has even length, whatever the length of the run and
\* whatever precedes it.
C18_IndicatorParity ==
  AskedBetweenIndicators =>
    /\ lastCall.outcome = "return"
    /\ lastCall.result = (IF RunBefore(lbc.text, lastCall.pos) % 2 = 1 THEN FORBIDDEN ELSE ALLOWED)

\* the number of code points one occurrence of the token covers
Span(token) == IF token.type = "sequence" THEN Len(token.content) ELSE 1

\* the first index, from i on in steps of one occurrence, at which the
\* token does not match
RECURSIVE FirstFailure(_, _, _, _)
FirstFailure(parent, token, i, step) ==
  IF consumeToken(lbc, token, i, step, parent, FALSE, 2).result
    THEN FirstFailure(parent, token, i + step * Span(token), step)
    ELSE i

\* C19: '* X' evaluated at index i with step s returns true, and the index
\* it returns is the first index at which X does not match when the
\* occurrences of X are taken one after the other from i on, also when
\* they reach the first or the last code point.
C19_StarConsumesRun ==
  lastCall.op = "consumeToken" =>
    /\ lastCall.outcome = "return"
    /\ lastCall.result = TRUE
    /\ lastCall.index = FirstFailure(lastCall.parent, lastCall.parent.content[2], lastCall.pos, lastCall.step)

\* original code point k (counted from 0) is a CM or ZWJ that its combining
\* sequence absorbs: it follows a code point other than SP, BK, CR, LF, NL, ZW
Absorbed(self, k) ==
  /\ k > 0 /\ k < Len(self.origClasses)
  /\ self.origClasses[k + 1] \in {"CM", "ZWJ"}
  /\ self.origClasses[k] \notin {"SP", "BK", "CR", "LF", "NL", "ZW"}

\* the base of the combining sequence that holds original code point k
RECURSIVE BaseOf(_, _)
BaseOf(self, k) == IF Absorbed(self, k) THEN BaseOf(self, k - 1) ELSE k

\* what the arrays without combining sequences hold for original code point
\* k, not absorbed: the code point and its class, or A and AL for a CM or ZWJ
ImageOf(self, k) ==
  IF self.origClasses[k + 1] \in {"CM", "ZWJ"}
    THEN [cls |-> "AL", codePoint |-> 65]
    ELSE [cls |-> self.origClasses[k + 1], codePoint |-> self.origCodePoints[k + 1]]

EntryOf(self, j) == [cls |-> self.classesWithoutCS[j + 1], codePoint |-> self.codePointsWithoutCS[j + 1]]

\* what C20 asks of a call at position pos of the checker pre
PostLB9Protocol(pre, call) ==
  LET log == call.log
      rules == parseRules[pre.rules]
      i == call.pos - PairsBefore(pre.text, call.pos)
      shifted == i - pre.offsetsCombiningSeqs[i + 1]
      original == [classes |-> pre.origClasses, codePoints |-> pre.origCodePoints]
      transformed == [classes |-> pre.classesWithoutCS, codePoints |-> pre.codePointsWithoutCS]
  IN  \A j \in 1..Len(log) :
        IF \E m \in 1..(j - 1) : log[m].fired
          THEN /\ log[j].index = shifted
               /\ log[j].matched <=> PatternsMatch(transformed, rules[j], shifted)
               /\ (i > 0 /\ i < Len(pre.origClasses)) =>
                    /\ ~Absorbed(pre, i)
                    /\ EntryOf(pre, shifted) = ImageOf(pre, i)
                    /\ shifted > 0
                    /\ EntryOf(pre, shifted - 1) = ImageOf(pre, BaseOf(pre, i - 1))
          ELSE /\ log[j].index = i
               /\ log[j].matched <=> PatternsMatch(original, rules[j], i)

\* C20: in a call of isPosLineBreaking at code point index i the rules up to
\* and including the one that removes the combining sequences are evaluated
\* on the original arrays at i, the later ones on the arrays without
\* combining sequences at i - offsetsCombiningSeqs[i]; there the entry at the
\* index is the image of original code point i, which is not absorbed, and
\* the entry before it the image of the base of the sequence that holds
\* original code point i - 1.
C20_PostLB9Index ==
  [][(/\ lastCall'.op = "isPosLineBreaking"
      /\ lastCall'.outcome = "return"
      /\ lbc.defined
      /\ lastCall'.pos \in 0..Len(lbc.text)
      /\ ~InsideSurrogatePair(lbc.text, lastCall'.pos))
     => PostLB9Protocol(lbc, lastCall')]_vars

\* the verdict of a new checker with the given rules for position p of text
Verdict(rules, text, p) ==
  isPosLineBreaking(setText(LineBreakingChecker("none", rules), text), p).result

\* code unit k of text (counted from 1) is a code point of resolved class CM
CombiningMarkAt(text, k) ==
  /\ k >= 1 /\ k <= Len(text)
  /\ ~isSurrogate(text[k])
  /\ resolveClass("none", text[k]) = "CM"

\* the number of combining marks in a row that end at position p
RECURSIVE MarksBefore(_, _)
MarksBefore(text, p) ==
  IF CombiningMarkAt(text, p) THEN 1 + MarksBefore(text, p - 1) ELSE 0

\* the class of the code point that ends at position p > 0
ClassBefore(self, p) == self.origClasses[p - PairsBefore(self.text, p)]

\* position p follows a code point X and one or more combining marks, X
\* being none of BK, CR, LF, NL, SP, ZW, CM, ZWJ
AfterMarkedBase(self, p) ==
  /\ p \in 1..Len(self.text)
  /\ MarksBefore(self.text, p) >= 1
  /\ p - MarksBefore(self.text, p) >= 1
  /\ ClassBefore(self, p - MarksBefore(self.text, p)) \notin {"BK", "CR", "LF", "NL", "SP", "ZW", "CM", "ZWJ"}

\* text without the k code units before position p
WithoutMarks(text, p, k) == SubSeq(text, 1, p - k) \o SubSeq(text, p + 1, Len(text))

\* C21: with the standard rules, at a position that follows X and k >= 1
\* combining marks, X being none of BK, CR, LF, NL, SP, ZW, CM, ZWJ, the
\* verdict is the verdict directly after X in the text without those marks.
C21_MarksTransparent ==
  (PositionAsked /\ lbc.rules \in StdRules /\ lbc.assignLineBreakingClsCriteria = "none" /\ AfterMarkedBase(lbc, lastCall.pos)) =>
    LET k == MarksBefore(lbc.text, lastCall.pos)
    IN  /\ lastCall.outcome = "return"
        /\ lastCall.result = Verdict(lbc.rules, WithoutMarks(lbc.text, lastCall.pos, k), lastCall.pos - k)

\* the number of absorbed code points among the original indices 0..k
SkippedUpTo(self, k) == Cardinality({m \in 0..k : Absorbed(self, m)})

\* what C22 asks of the arrays that setText builds
TransformOf(self) ==
  LET n == Len(self.origClasses)
      offsets == self.offsetsCombiningSeqs
  IN  /\ Len(offsets) = n + 1
      /\ \A k \in 0..(n - 1) : offsets[k + 1] = SkippedUpTo(self, k)
      /\ offsets[n + 1] = SkippedUpTo(self, n - 1)
      /\ \A k \in 1..n : offsets[k] <= offsets[k + 1]
      /\ Len(self.classesWithoutCS) = n - offsets[n + 1]
      /\ Len(self.codePointsWithoutCS) = n - offsets[n + 1]
      /\ \A k \in 0..(n - 1) : ~Absorbed(self, k) => EntryOf(self, k - offsets[k + 1]) = ImageOf(self, k)
      /\ \A j \in 1..Len(self.classesWithoutCS) : self.classesWithoutCS[j] \notin {"CM", "ZWJ"}

\* C22: setText emits a CM or ZWJ that has no predecessor, or whose
\* predecessor has class SP, BK, CR, LF, NL or ZW, as (AL, U+0041), skips and
\* counts every other CM or ZWJ and copies every other code point; the two
\* arrays have the length n - offsetsCombiningSeqs[n] and hold no CM or ZWJ;
\* offsetsCombiningSeqs has n + 1 entries, does not decrease, and its entry k
\* is the number of code points skipped among the indices 0..k.
C22_CombiningTransform == lbc.defined => TransformOf(lbc)

(***************************************************************************)
(* Evaluation of a set                                                     *)
(***************************************************************************)
\* the operand of an item is true of the code point at index i
AtomAt(self, atom, i) ==
  IF atom = "gc(Lu)" THEN getGeneralCategory(self.codePoints[i + 1]) = "Lu"
  ELSE self.classes[i + 1] = atom

\* an item with its '^'
ItemAt(self, item, i) ==
  IF item.neg THEN ~AtomAt(self, item.atom, i) ELSE AtomAt(self, item.atom, i)

\* the items combined from left to right, left-associative: (so far) | B,
\* (so far) & B, (so far) - B
RECURSIVE Combination(_, _, _)
Combination(self, items, i) ==
  IF Len(items) = 1 THEN ItemAt(self, items[1], i)
  ELSE LET sofar == Combination(self, SubSeq(items, 1, Len(items) - 1), i)
           last == items[Len(items)]
       IN  CASE last.op = "|" -> sofar \/ ItemAt(self, last, i)
             [] last.op = "&" -> sofar /\ ItemAt(self, last, i)
             [] last.op = "-" -> sofar /\ ~ItemAt(self, last, i)

SetEvaluated == lastCall.op = "consumeToken" /\ "items" \in DOMAIN lastCall

\* C23: a set matches at index i exactly when the left-to-right,
\* left-associative combination of its items (adjacent items joined by OR,
\* '&' and, '-' and not, '^' not) is true at i, and it returns the index it
\* was given
C23_SetEvaluation ==
  SetEvaluated =>
    /\ lastCall.outcome = "return"
    /\ lastCall.result = Combination(lbc, lastCall.items, lastCall.pos)
    /\ lastCall.index = lastCall.pos

(***************************************************************************)
(* The tree of a parsed rule                                               *)
(***************************************************************************)
TreeParsed == lastCall.op = "parseRule" /\ lastCall.outcome = "return"

\* the operands of a content: each item with the modifiers that precede it
RECURSIVE OperandsOf(_, _)
OperandsOf(content, pending) ==
  IF content = << >> THEN << >>
  ELSE IF Head(content).type = "modifier"
    THEN OperandsOf(Tail(content), Append(pending, Head(content)))
    ELSE << Append(pending, Head(content)) >> \o OperandsOf(Tail(content), << >>)

RECURSIVE Concat(_)
Concat(ss) == IF ss = << >> THEN << >> ELSE Head(ss) \o Concat(Tail(ss))

\* the tree with the operands of every sequence in reverse order, each
\* operand with its modifiers before it, and the items of sets in their order
RECURSIVE Mirror(_)
Mirror(token) ==
  LET inner(content) == [k \in 1..Len(content) |-> Mirror(content[k])]
  IN  CASE token.type = "sequence" ->
             LET ops == OperandsOf(token.content, << >>)
             IN  [token EXCEPT !.content =
                    Concat([k \in 1..Len(ops) |-> inner(ops[Len(ops) + 1 - k])])]
        [] token.type = "set" -> [token EXCEPT !.content = inner(token.content)]
        [] OTHER -> token

\* brackets opened and not closed in tokens[k..j]
RECURSIVE OpenIn(_, _, _)
OpenIn(tokens, k, j) ==
  IF j < k THEN 0
  ELSE OpenIn(tokens, k, j - 1)
         + (IF tokens[j] \in {"[", "("} THEN 1 ELSE IF tokens[j] \in {"]", ")"} THEN 0 - 1 ELSE 0)

\* the tree that a string of tokens denotes
RECURSIVE Read(_)
Read(tokens) ==
  IF tokens = << >> THEN << >>
  ELSE LET head == Head(tokens)
       IN  CASE head \in {"[", "("} ->
                  LET close == CHOOSE j \in 2..Len(tokens) :
                                 /\ OpenIn(tokens, 1, j) = 0
                                 /\ \A h \in 1..(j - 1) : OpenIn(tokens, 1, h) > 0
                  IN  << [type |-> IF head = "[" THEN "sequence" ELSE "set",
                          content |-> Read(SubSeq(tokens, 2, close - 1))] >>
                        \o Read(SubSeq(tokens, close + 1, Len(tokens)))
             [] head \in {"^", "*"} ->
                  << [type |-> "modifier", content |-> head] >> \o Read(Tail(tokens))
             [] OTHER -> << [type |-> "class", content |-> head] >> \o Read(Tail(tokens))

\* the pattern as written, before the reversal
Written == cleanPart([type |-> "sequence", content |-> Read(lastCall.source)])

\* C24: in the before pattern every sequence lists its operands in the
\* reverse of the source order, every unary modifier still before the operand
\* it preceded, sets keep the order of their items, and the after pattern is
\* in source order
C24_BeforeReversed ==
  TreeParsed =>
    /\ lastCall.parsed.before = Mirror(Written)
    /\ lastCall.parsed.after = Written

\* no sequence of the tree has a sequence as its sole child, and no set a set
RECURSIVE Canonical(_)
Canonical(token) ==
  \/ token.type \notin {"sequence", "set"}
  \/ /\ ~(Len(token.content) = 1 /\ token.content[1].type = token.type)
     /\ \A k \in 1..Len(token.content) : Canonical(token.content[k])

\* C25: in the tree of a parsed rule, whatever the depth of the brackets in
\* the source, no sequence has another sequence as its sole child and no set
\* has another set as its sole child
C25_CanonicalForm ==
  TreeParsed => Canonical(lastCall.parsed.before) /\ Canonical(lastCall.parsed.after)

(***************************************************************************)
(* Evaluation outside the code points                                      *)
(***************************************************************************)
KindRules == lbc.rules = "kinds"

\* a token that reads a code point has been evaluated at an index below 0 or
\* not below the number of code points
KindOutOfRange ==
  /\ KindRules /\ lastCall.op = "consumeToken"
  /\ lastCall.pos < 0 \/ lastCall.pos >= Len(lbc.codePoints)

\* C26: a class, gc, codepoint, extpict or eastasian token evaluated at an
\* index outside the code points yields false and raises no error, and
\* isPosLineBreaking at a position of 0..text.length does not throw
C26_OutOfRangeSafe ==
  /\ KindOutOfRange => lastCall.outcome = "return" /\ lastCall.result = FALSE
  /\ (KindRules /\ PositionAsked /\ lastCall.pos \in 0..Len(lbc.text)) =>
       lastCall.outcome = "return"

(***************************************************************************)
(* Code units and code points                                              *)
(***************************************************************************)
TextSet == lastCall.op = "setText" /\ lbc.defined

\* the code units at 0-based indices k and k + 1 are a surrogate pair
PairAt(text, k) ==
  k >= 0 /\ k + 1 < Len(text) /\ HighSurrogate(text[k + 1]) /\ LowSurrogate(text[k + 2])

\* the code units before p at which a code point starts
StartsBefore(text, p) == { k \in 0..(p - 1) : ~PairAt(text, k - 1) }

\* a surrogate at index k that belongs to no pair
LoneSurrogateAt(text, k) ==
  /\ k >= 0 /\ k < Len(text)
  /\ HighSurrogate(text[k + 1]) \/ LowSurrogate(text[k + 1])
  /\ ~PairAt(text, k) /\ ~PairAt(text, k - 1)

\* C27: after setText, for every position p of 0..text.length that is not
\* inside a surrogate pair, p - offsetsSurrogates[p] is the number of code
\* points that start before p; the number of code points is text.length -
\* offsetsSurrogates[text.length]; a lone surrogate is one code point
C27_PositionToIndex ==
  TextSet =>
    /\ \A p \in 0..Len(lbc.text) :
         ~InsideSurrogatePair(lbc.text, p) =>
           /\ Len(lbc.offsetsSurrogates) > p
           /\ p - lbc.offsetsSurrogates[p + 1] = Cardinality(StartsBefore(lbc.text, p))
    /\ Len(lbc.codePoints) = Len(lbc.text) - lbc.offsetsSurrogates[Len(lbc.text) + 1]
    /\ \A k \in 0..(Len(lbc.text) - 1) :
         LoneSurrogateAt(lbc.text, k) =>
           lbc.codePoints[Cardinality(StartsBefore(lbc.text, k)) + 1] = lbc.text[k + 1]

\* a text with a surrogate pair and a lone surrogate has been set
C27_Witness ==
  /\ TextSet
  /\ \E k \in 0..(Len(lbc.text) - 1) : PairAt(lbc.text, k)
  /\ \E k \in 0..(Len(lbc.text) - 1) : LoneSurrogateAt(lbc.text, k)

LowSurrogatesBefore(text, k) == { j \in 0..(k - 1) : LowSurrogate(text[j + 1]) }

PairsBegunBefore(text, k) == { j \in 0..(k - 1) : PairAt(text, j) }

\* C28: after setText, offsetsSurrogates has text.length + 1 entries, entry
\* k is the number of low surrogates among the code units before index k, and
\* the last entry is the number of low surrogates of the text
C28_LowSurrogatesCounted ==
  TextSet =>
    /\ Len(lbc.offsetsSurrogates) = Len(lbc.text) + 1
    /\ \A k \in 0..Len(lbc.text) :
         lbc.offsetsSurrogates[k + 1] = Cardinality(LowSurrogatesBefore(lbc.text, k))

\* C28 as the code has it: entry k is the number of surrogate pairs whose
\* high surrogate is before index k, and the last entry is the number of
\* surrogate pairs of the text
C28_PairsCounted ==
  TextSet =>
    /\ Len(lbc.offsetsSurrogates) = Len(lbc.text) + 1
    /\ \A k \in 0..Len(lbc.text) :
         lbc.offsetsSurrogates[k + 1] = Cardinality(PairsBegunBefore(lbc.text, k))

\* a text with a surrogate pair that is not at its end has been set
C28_Witness ==
  /\ TextSet
  /\ \E k \in 0..(Len(lbc.text) - 3) : PairAt(lbc.text, k)
=============================================================================
